---------------------------- MODULE Spec2Model ----------------------------
(***************************************************************************)
(* A model of the TradingAutomate analysis engine (src/algos, src/Main.py) *)
(*                                                                         *)
(*  - the signal voter analyze_data (src/algos/AnalyzeData.py);            *)
(*  - the eight entry points Main.py iterates (invokeMARSI, invokeDouble-  *)
(*    Bottom, invokeHeadAndShoulders, invokeDoubleTop, invokeRisingWedge,  *)
(*    invokeFallingWedge, invokeCupAndHandle, invokeAscendingTriangle)     *)
(*    at the level of their control flow: length gate, column accesses,    *)
(*    detection outcome, plotting, exception handlers;                     *)
(*  - the report run of Main.main: the loop over the patterns list,        *)
(*    finalize_report and delete_generated_images, for one run and for     *)
(*    two runs sharing a working directory.                                *)
(*                                                                         *)
(* The caller's table is abstracted to what the modelled code branches on: *)
(* its number of bars, the set of price columns it has (flat column        *)
(* labels, as built by Main.generate_mock_data and tests/test_utils.py),   *)
(* what a matcher's scan meets in it (shape), the latest bar's indicator   *)
(* values, and whether a chart can be rendered and saved.                  *)
(***************************************************************************)
EXTENDS Integers, Sequences, FiniteSets, TLC

VARIABLES
    series,     \* the caller's table (the df / data argument)
    calls,      \* the calls made on it so far: <<[fn, res]>>
    patterns,   \* main: the local list of (name, matcher) pairs
    pc,         \* main: per run, the position in main()
    idx,        \* main: per run, the index of the pattern being processed
    pending,    \* main: per run, what pattern_function(data) just gave
    processed,  \* main: per run, the pattern names whose section is complete
    finalized,  \* main: per run, whether finalize_report has run
    fs,         \* the working directory: artifact path -> writer run, or 0
    shared      \* what has happened across runs to artifacts in fs

vars == <<series, calls, patterns, pc, idx, pending, processed, finalized, fs, shared>>

callVars == <<series, calls>>
mainVars == <<patterns, pc, idx, pending, processed, finalized, fs, shared>>

--------------------------------------------------------------------------
(* Bounds of the model *)

\* sampled lengths lie within LenSlack bars of a length the code branches on
LenSlack == 1

\* number of calls made on one table
MaxCalls == 2
\* number of bars of the tables given bar by bar
ScanLen == 100
\* the patterns of the list that two parallel runs go through
ParPatterns == 3

--------------------------------------------------------------------------
(* Program constants *)

\* AnalyzeData.py:97  if len(df) < 50
MinBarsVoter == 50
\* AnalyzeData.py:102 SMAIndicator(window=50): the widest indicator window
SlowestWindow == 50
\* AnalyzeData.py:114 if len(df) < 5 after dropna
MinRowsAfterDropna == 5
\* AnalyzeData.py:171 the number of indicators
TotalIndicators == 3
\* AnalyzeData.py:143 / 146 RSI thresholds
RsiOverbought == 70
RsiOversold == 30

\* the minimum lengths of the entry points
MinBarsDoubleTop == 20
MinBarsDoubleBottom == 10
MinBarsHeadAndShoulders == 15
MinBarsWedge == 20
\* detect_*_wedge: len(df_copy) < window_size * 3
MinBarsDetectWedge == 15
MinBarsCupAndHandle == 60
MinBarsAscendingTriangle == 30
MinBarsMARSI == 200

\* DoubleTop.py: window = 5, min_distance=10, max_price_diff_pct=0.03 (in
\* percent), len(after_second_peak) < 3
PeakWindow == 5
MinPeakDistance == 10
MaxPriceDiffPct == 3
MinBarsAfterSecondPeak == 3
\* DoubleBottom.py: window_size = 3, min_distance_between_lows=5,
\* min_depth=0.03 (in percent)
LowWindow == 3
\* FallingWedge.py, RisingWedge.py: window_size=5
WedgeWindow == 5
\* HeadAndShoulder.py: window_size=5; shoulders within 10% of the left one
HSWindow == 5
\* RisingWedge.py, FallingWedge.py: min_points=3
MinPoints == 3
ShoulderDiffPct == 10
MinLowDistance == 5
MinDepthPct == 3
CupMinPeriods == 30
HandleMaxPeriods == 15
RimWindow == 10
CupDepthPct == 15
RimTolerancePct == 5
HandleMinDepthPct == 3

Abs(x) == IF x < 0 THEN -x ELSE x

RequiredColumns == {"Open", "High", "Low", "Close"}


--------------------------------------------------------------------------
(* The caller's table *)

\* the lengths at which some modelled branch changes
LengthThresholds ==
    { MinBarsDoubleBottom, MinBarsHeadAndShoulders, MinBarsDoubleTop,
      MinBarsWedge, MinBarsAscendingTriangle, MinBarsVoter,
      SlowestWindow - 1 + MinRowsAfterDropna, MinBarsCupAndHandle,
      MinBarsMARSI }

LenSamples ==
    {0} \cup { n \in 0..(MinBarsMARSI + LenSlack) :
                 \E t \in LengthThresholds : Abs(n - t) <= LenSlack }

\* what a matcher's scan meets in the table
\*   none        no candidate combination of extrema passes the first checks
\*   forming     a qualifying shape, and no later close crosses its threshold
\*   confirmed   a qualifying shape with a breakout bar; the latest close is
\*               still beyond the threshold
\*   reverted    a qualifying shape with a breakout bar; the latest close is
\*               back on the near side of the threshold
\*   degenerate  the first candidate's reference price is 0
Shapes == {"none", "forming", "confirmed", "reverted", "degenerate"}

\* the latest bar: what the voter reads (close, sma20, sma50, rsi, macd,
\* macd_signal) and the signal columns generate_signals leaves on it
LastBars ==
    [ close : 1..3, sma20 : 1..3, sma50 : 1..3,
      rsi : {25, 30, 50, 70, 75},
      macd : 0..1, macd_signal : 0..1,
      ma_signal : {0}, rsi_signal : {0}, bb_signal : {0}, adx_signal : {0} ]

LastBarSamples ==
    { [ close |-> 3, sma20 |-> 2, sma50 |-> 1, rsi |-> 25, macd |-> 1, macd_signal |-> 0,
        ma_signal |-> 1, rsi_signal |-> 1, bb_signal |-> 0, adx_signal |-> 1 ],
      [ close |-> 1, sma20 |-> 2, sma50 |-> 3, rsi |-> 75, macd |-> 0, macd_signal |-> 1,
        ma_signal |-> -1, rsi_signal |-> 0, bb_signal |-> -1, adx_signal |-> 1 ],
      [ close |-> 2, sma20 |-> 2, sma50 |-> 1, rsi |-> 50, macd |-> 1, macd_signal |-> 1,
        ma_signal |-> 1, rsi_signal |-> 1, bb_signal |-> 1, adx_signal |-> 0 ] }

None == "None"

--------------------------------------------------------------------------
(* src/algos/AnalyzeData.py *)

\* (variant: only the MACD signal's first 33 rows are missing)
RowsAfterDropna_of_macd(n) == IF n >= 34 THEN n - 33 ELSE 0

\* rows left by df.dropna() once SMA20, SMA50, RSI(14), MACD(12,26) and its
\* signal(9) are columns of a table without missing prices: the first
\* SlowestWindow - 1 rows have no SMA50
RowsAfterDropna(n) == IF n >= SlowestWindow THEN n - (SlowestWindow - 1) ELSE 0

\* a return of analyze_data taken before any indicator is read
VoterEarly(signal) ==
    [ signal |-> signal, confidence3 |-> 0,
      sma_signal |-> None, rsi_signal |-> None, macd_signal |-> None ]

sma_vote_ignoring_close(b) ==
    IF b.sma20 > b.sma50 THEN "Bullish"
    ELSE IF b.sma20 < b.sma50 THEN "Bearish"
    ELSE "Neutral"

\* lines 129-140
sma_vote(b) ==
    IF b.close > b.sma20 /\ b.sma20 > b.sma50 THEN "Bullish"
    ELSE IF b.close < b.sma20 /\ b.sma20 < b.sma50 THEN "Bearish"
    ELSE "Neutral"

rsi_vote(b) ==
    IF b.rsi > RsiOverbought THEN "Overbought"
    ELSE IF b.rsi < RsiOversold THEN "Oversold"
    ELSE "Neutral"

\* (variant: the line not above its signal counts as below it)
macd_vote_below_unless_above(b) ==
    IF b.macd > b.macd_signal THEN "Above Signal" ELSE "Below Signal"

\* lines 152-160
macd_vote(b) ==
    IF b.macd > b.macd_signal THEN "Above Signal"
    ELSE IF b.macd < b.macd_signal THEN "Below Signal"
    ELSE "Neutral"

overall_signal_tie_buys(buy, sell) ==
    IF buy >= sell THEN "Buy" ELSE "Sell"

overall_signal(buy, sell) ==
    IF buy > sell THEN "Buy"
    ELSE IF sell > buy THEN "Sell"
    ELSE "Hold"

confidence3_no_abs(buy, sell) == (buy - sell) * 100

\* confidence = (abs(buy_signals - sell_signals) / 3) * 100, kept as
\* confidence * TotalIndicators so that it stays an integer
confidence3(buy, sell) == Abs(buy - sell) * 100

Count(cond) == IF cond THEN 1 ELSE 0

\* the voting step (lines 117-178); after dropna the latest row holds no
\* NaN, so the 'Unknown' branch of line 130 is never taken
vote(b) ==
    LET sma == sma_vote(b)
        rsi == rsi_vote(b)
        macd == macd_vote(b)
        buy == Count(sma = "Bullish") + Count(rsi = "Oversold") + Count(macd = "Above Signal")
        sell == Count(sma = "Bearish") + Count(rsi = "Overbought") + Count(macd = "Below Signal")
    IN [ signal |-> overall_signal(buy, sell),
         confidence3 |-> confidence3(buy, sell),
         sma_signal |-> sma, rsi_signal |-> rsi, macd_signal |-> macd ]

analyze_data_no_length_gate(s) ==
    IF "Close" \notin s.cols THEN VoterEarly("Error in data analysis")
    ELSE IF RowsAfterDropna(s.len) < MinRowsAfterDropna
         THEN VoterEarly("Insufficient data after processing")
    ELSE vote(s.last)

analyze_data(s) ==
    IF s.len < MinBarsVoter THEN VoterEarly("Insufficient data")
    ELSE IF "Close" \notin s.cols THEN VoterEarly("Error in data analysis")
    ELSE IF RowsAfterDropna(s.len) < MinRowsAfterDropna
         THEN VoterEarly("Insufficient data after processing")
    ELSE vote(s.last)

--------------------------------------------------------------------------
(* The matcher entry points: src/algos/*.py *)

\* what a detect_* call does: it returns (found says what) or it raises
Returns(found) == [exc |-> "none", found |-> found]
Raises(exc) == [exc |-> exc, found |-> "nothing"]

\* what an invoke* call does: it returns the pair (msg with its status
\* line, artifact) or an exception leaves it
Result(msg, status, artifact) ==
    [msg |-> msg, status |-> status, artifact |-> artifact, exc |-> "none"]
Escapes(exc) ==
    [msg |-> None, status |-> None, artifact |-> None, exc |-> exc]

TryExcept_reraise(r) == r

\* try: ... except Exception as e: return f"Error ...: {e}", None
TryExcept(r) ==
    IF r.exc # "none" THEN Result("Error", r.exc, None) ELSE r

\* a plot_* function with its own try/except gives the path or None;
\* plt.savefig(image_path) with the default image_path of each plot_*
Plot(s, image_path) == IF s.plotOK THEN image_path ELSE None

\* ---- DoubleTop.py
detect_double_top(s) ==
    IF s.len < MinBarsDoubleTop THEN Returns("nothing")
    ELSE IF "High" \notin s.cols THEN Raises("KeyError")
    ELSE IF s.shape = "none" THEN Returns("nothing")
    ELSE IF s.shape = "degenerate" THEN Raises("ZeroDivisionError")
    ELSE IF "Low" \notin s.cols THEN Raises("KeyError")
    ELSE IF "Close" \notin s.cols THEN Raises("KeyError")
    ELSE IF s.shape = "forming" THEN Returns("nothing")
    ELSE Returns("breakout")

invokeDoubleTop(s) ==
    TryExcept(
      IF s.len < MinBarsDoubleTop THEN Result("Insufficient data", None, None)
      ELSE LET d == detect_double_top(s) IN
        IF d.exc # "none" THEN Escapes(d.exc)
        ELSE IF d.found = "nothing" THEN Result("No pattern detected", None, None)
        ELSE Result("Pattern detected",
                    IF s.shape = "confirmed" THEN "Breakdown confirmed"
                    ELSE "Awaiting breakdown",
                    Plot(s, "double_top_pattern.png")))

\* ---- DoubleBottom.py
detect_double_bottom_raising(s) ==
    IF ~(RequiredColumns \subseteq s.cols) THEN Raises("KeyError")
    ELSE IF s.len < MinBarsDoubleBottom THEN Returns("nothing")
    ELSE IF s.shape = "degenerate" THEN Raises("ZeroDivisionError")
    ELSE IF s.shape \in {"none", "forming"} THEN Returns("nothing")
    ELSE Returns("breakout")

detect_double_bottom(s) ==
    IF ~(RequiredColumns \subseteq s.cols) THEN Returns("nothing")
    ELSE IF s.len < MinBarsDoubleBottom THEN Returns("nothing")
    ELSE IF s.shape = "degenerate" THEN Raises("ZeroDivisionError")
    ELSE IF s.shape \in {"none", "forming"} THEN Returns("nothing")
    ELSE Returns("breakout")

\* plot_double_bottom_with_fibonacci has no handler of its own
invokeDoubleBottom(s) ==
    TryExcept(
      IF s.len < MinBarsDoubleBottom THEN Result("Insufficient data", None, None)
      ELSE LET d == detect_double_bottom(s) IN
        IF d.exc # "none" THEN Escapes(d.exc)
        ELSE IF d.found = "nothing" THEN Result("No pattern detected", None, None)
        ELSE IF ~s.plotOK THEN Escapes("PlotError")
        ELSE Result("Pattern detected", "Fibonacci targets",
                    "double_bottom_with_fibonacci.png"))

\* ---- HeadAndShoulder.py
detect_head_and_shoulders(s) ==
    IF ~(RequiredColumns \subseteq s.cols) THEN Returns("nothing")
    ELSE IF s.len < MinBarsHeadAndShoulders THEN Returns("nothing")
    ELSE IF s.shape = "degenerate" THEN Raises("ZeroDivisionError")
    ELSE IF s.shape \in {"none", "forming"} THEN Returns("nothing")
    ELSE Returns("breakout")

invokeHeadAndShoulders(s) ==
    TryExcept(
      IF s.len < MinBarsHeadAndShoulders THEN Result("Insufficient data", None, None)
      ELSE LET d == detect_head_and_shoulders(s) IN
        IF d.exc # "none" THEN Escapes(d.exc)
        ELSE IF d.found = "nothing" THEN Result("No pattern detected", None, None)
        ELSE IF Plot(s, "head_and_shoulders_pattern.png") = None
             THEN Result("Error generating visualization", None, None)
        ELSE Result("Pattern detected",
                    IF s.shape = "confirmed" THEN "Breakdown confirmed"
                    ELSE "Awaiting confirmation of breakdown",
                    "head_and_shoulders_pattern.png"))

\* ---- RisingWedge.py, FallingWedge.py
\* on a missing column detect_*_wedge returns four values
\* (None, None, None, None); otherwise three: the two trendlines (both
\* empty when no wedge is found) and the breakout point or None
detect_wedge(s) ==
    IF ~(RequiredColumns \subseteq s.cols) THEN Returns("four values")
    ELSE IF s.len < MinBarsDetectWedge THEN Returns("nothing")
    ELSE IF s.shape \in {"none", "degenerate"} THEN Returns("nothing")
    ELSE IF s.shape = "forming" THEN Returns("lines")
    ELSE Returns("breakout")

invokeWedge(s, image_path, forming, confirmed) ==
    TryExcept(
      IF s.len < MinBarsWedge THEN Result("Insufficient data", None, None)
      ELSE LET d == detect_wedge(s) IN
        IF d.found = "four values" THEN Escapes("ValueError")
        ELSE IF d.found = "nothing" THEN Result("No pattern detected", None, None)
        ELSE IF Plot(s, image_path) = None
             THEN Result("Error generating visualization", None, None)
        ELSE Result("Pattern detected",
                    IF d.found = "breakout" THEN confirmed ELSE forming,
                    image_path))

invokeRisingWedge(s) ==
    invokeWedge(s, "rising_wedge_pattern.png",
                "Pattern forming. Watch for potential breakdown.",
                "Breakdown confirmed")

invokeFallingWedge(s) ==
    invokeWedge(s, "falling_wedge_pattern.png",
                "Pattern forming. Watch for potential breakout.",
                "Breakout confirmed")

\* ---- CupAndHandle.py
detect_cup_and_handle(s) ==
    IF s.len < MinBarsCupAndHandle THEN Returns("nothing")
    ELSE IF "High" \notin s.cols THEN Raises("KeyError")
    ELSE IF "Low" \notin s.cols THEN Raises("KeyError")
    ELSE IF s.shape = "degenerate" THEN Raises("ZeroDivisionError")
    ELSE IF s.shape = "none" THEN Returns("nothing")
    ELSE IF "Close" \notin s.cols THEN Raises("KeyError")
    ELSE IF s.shape = "forming" THEN Returns("nothing")
    ELSE Returns("breakout")

invokeCupAndHandle_no_length_gate(s) ==
    TryExcept(
      LET d == detect_cup_and_handle(s) IN
        IF d.exc # "none" THEN Escapes(d.exc)
        ELSE IF d.found = "nothing" THEN Result("No pattern detected", None, None)
        ELSE Result("Pattern detected",
                    IF s.shape = "reverted"
                    THEN "Pattern forming. Awaiting breakout confirmation."
                    ELSE "Breakout confirmed",
                    Plot(s, "cup_and_handle.png")))

invokeCupAndHandle(s) ==
    TryExcept(
      IF s.len < MinBarsCupAndHandle THEN Result("Insufficient data", None, None)
      ELSE LET d == detect_cup_and_handle(s) IN
        IF d.exc # "none" THEN Escapes(d.exc)
        ELSE IF d.found = "nothing" THEN Result("No pattern detected", None, None)
        ELSE Result("Pattern detected",
                    IF s.shape = "reverted"
                    THEN "Pattern forming. Awaiting breakout confirmation."
                    ELSE "Breakout confirmed",
                    Plot(s, "cup_and_handle.png")))

\* ---- AscendingTriangle.py
\* on a missing column (or a short table) detect_ascending_triangle returns
\* four values; once a window of highs has min_touches in its modal bin,
\* line 142 applies .iloc[0] to the number df_copy.iloc[i]['High']
detect_ascending_triangle(s) ==
    IF ~(RequiredColumns \subseteq s.cols) THEN Returns("four values")
    ELSE IF s.len < MinBarsAscendingTriangle THEN Returns("four values")
    ELSE IF s.shape = "none" THEN Returns("nothing")
    ELSE Raises("AttributeError")

invokeAscendingTriangle(s) ==
    TryExcept(
      IF s.len < MinBarsAscendingTriangle THEN Result("Insufficient data", None, None)
      ELSE LET d == detect_ascending_triangle(s) IN
        IF d.exc # "none" THEN Escapes(d.exc)
        ELSE IF d.found = "four values" THEN Escapes("ValueError")
        ELSE Result("No pattern detected", None, None))

\* ---- MA_AND_RSI.py
\* generate_signals, for the latest bar
final_signal(b) ==
    IF b.ma_signal = 1 /\ (b.rsi_signal = 1 \/ b.bb_signal = 1) /\ b.adx_signal = 1
        THEN "Buy"
    ELSE IF b.ma_signal = -1 /\ (b.rsi_signal = -1 \/ b.bb_signal = -1) /\ b.adx_signal = 1
        THEN "Sell"
    ELSE "Hold"

\* calculate_indicators reads Close (SMA, RSI, Bollinger), then High and
\* Low (ADX); plot_ma_rsi_strategy has no handler of its own
invokeMARSI(s) ==
    TryExcept(
      IF s.len < MinBarsMARSI THEN Result("Insufficient data", None, None)
      ELSE IF ~({"Close", "High", "Low"} \subseteq s.cols) THEN Escapes("KeyError")
      ELSE IF ~s.plotOK THEN Escapes("PlotError")
      ELSE Result(final_signal(s.last), "MA_AND_RSI Analysis", "ma_rsi_strategy.png"))

--------------------------------------------------------------------------
(* Calls on one table *)

Tables(lens, cols, shapes, lasts, plots) ==
    [ len : lens, cols : cols, shape : shapes, last : lasts, plotOK : plots ]

CallerTableAfter_in_place(fn, s) ==
    IF fn = "analyze_data" /\ s.len >= MinBarsVoter /\ "Close" \in s.cols
    THEN [s EXCEPT !.len = RowsAfterDropna(s.len)]
    ELSE s

\* the minimum length each entry point states
MinBars(fn) ==
    CASE fn = "invokeMARSI" -> MinBarsMARSI
      [] fn = "invokeDoubleBottom" -> MinBarsDoubleBottom
      [] fn = "invokeHeadAndShoulders" -> MinBarsHeadAndShoulders
      [] fn = "invokeDoubleTop" -> MinBarsDoubleTop
      [] fn = "invokeRisingWedge" -> MinBarsWedge
      [] fn = "invokeFallingWedge" -> MinBarsWedge
      [] fn = "invokeCupAndHandle" -> MinBarsCupAndHandle
      [] fn = "invokeAscendingTriangle" -> MinBarsAscendingTriangle
      [] OTHER -> MinBarsVoter

\* the helper columns a call adds to the table it works on
HelperColumns(fn) ==
    CASE fn = "analyze_data" -> {"SMA20", "SMA50", "RSI", "MACD", "MACD_signal"}
      [] fn = "invokeDoubleTop" -> {"is_peak"}
      [] fn = "invokeCupAndHandle" -> {"rolling_max_30"}
      [] fn \in {"invokeRisingWedge", "invokeFallingWedge"} -> {"rolling_max", "rolling_min"}
      [] fn = "invokeHeadAndShoulders" -> {"rolling_max"}
      [] fn = "invokeDoubleBottom" -> {"rolling_min"}
      [] OTHER -> {}

CallerTableAfter_without_copy(fn, s) ==
    IF s.len >= MinBars(fn) THEN [s EXCEPT !.cols = @ \cup HelperColumns(fn)] ELSE s

\* the caller's table after a call: every entry point and analyze_data
\* start with df.copy() and add columns to, and drop rows from, the copy
CallerTableAfter(fn, s) == s

\* one call on the caller's table; a table is called repeatedly through
\* the same entry point
Call(fn, res) ==
    /\ Len(calls) < MaxCalls
    /\ calls # << >> => calls[1].fn = fn
    /\ calls' = Append(calls, [fn |-> fn, res |-> res])
    /\ series' = CallerTableAfter(fn, series)
    /\ UNCHANGED mainVars

AnalyzeData == Call("analyze_data", analyze_data(series))
InvokeMARSI == Call("invokeMARSI", invokeMARSI(series))
InvokeDoubleBottom == Call("invokeDoubleBottom", invokeDoubleBottom(series))
InvokeHeadAndShoulders == Call("invokeHeadAndShoulders", invokeHeadAndShoulders(series))
InvokeDoubleTop == Call("invokeDoubleTop", invokeDoubleTop(series))
InvokeRisingWedge == Call("invokeRisingWedge", invokeRisingWedge(series))
InvokeFallingWedge == Call("invokeFallingWedge", invokeFallingWedge(series))
InvokeCupAndHandle == Call("invokeCupAndHandle", invokeCupAndHandle(series))
InvokeAscendingTriangle == Call("invokeAscendingTriangle", invokeAscendingTriangle(series))

NoRuns == [r \in {} |-> 0]

MainIdle ==
    /\ patterns = << >>
    /\ pc = NoRuns /\ idx = NoRuns /\ pending = NoRuns
    /\ processed = NoRuns /\ finalized = NoRuns
    /\ fs = [p \in {} |-> 0]
    /\ shared = [overwritten |-> FALSE, embedded_foreign |-> FALSE,
                 removed_foreign |-> FALSE, raised |-> {}]

\* the matchers and the voter, called on any table
Init ==
    /\ series \in Tables(LenSamples, SUBSET RequiredColumns, Shapes,
                         LastBarSamples, BOOLEAN)
    /\ calls = << >>
    /\ MainIdle

Next ==
    \/ AnalyzeData
    \/ InvokeMARSI
    \/ InvokeDoubleBottom
    \/ InvokeHeadAndShoulders
    \/ InvokeDoubleTop
    \/ InvokeRisingWedge
    \/ InvokeFallingWedge
    \/ InvokeCupAndHandle
    \/ InvokeAscendingTriangle

Spec == Init /\ [][Next]_vars

\* the voter, on every latest bar
InitVoter ==
    /\ series \in Tables(LenSamples, {RequiredColumns, RequiredColumns \ {"Close"}},
                         {"none"}, LastBars, {TRUE})
    /\ calls = << >>
    /\ MainIdle

NextVoter == AnalyzeData

SpecVoter == InitVoter /\ [][NextVoter]_vars

--------------------------------------------------------------------------
(* One report run: Main.main and process_pattern *)

\* the patterns list of main, in its order
PatternList ==
    << "Moving Average and RSI Strategy", "Double Bottom", "Head and Shoulders", "Double Top",
       "Rising Wedge", "Falling Wedge", "Cup and Handle", "Ascending Triangle" >>

\* the file a pattern's plot function saves to: the default image_path of
\* each plot function, which no entry point overrides; it depends neither
\* on the ticker nor on the run
ImagePath(pattern, run) ==
    CASE pattern = "Moving Average and RSI Strategy" -> "ma_rsi_strategy.png"
      [] pattern = "Double Bottom" -> "double_bottom_with_fibonacci.png"
      [] pattern = "Head and Shoulders" -> "head_and_shoulders_pattern.png"
      [] pattern = "Double Top" -> "double_top_pattern.png"
      [] pattern = "Rising Wedge" -> "rising_wedge_pattern.png"
      [] pattern = "Falling Wedge" -> "falling_wedge_pattern.png"
      [] pattern = "Cup and Handle" -> "cup_and_handle.png"
      [] OTHER -> "ascending_triangle.png"

ImagePaths == { ImagePath(PatternList[i], 0) : i \in DOMAIN PatternList }

Runs == DOMAIN pc

\* what a pattern function does in process_pattern's try block
Outcomes == {"message", "image", "raise"}

NextIndex_stop_on_raise(i, outcome, n) == IF outcome = "raise" THEN n + 1 ELSE i + 1

\* the for loop of main: the except clauses of process_pattern and of the
\* loop body let the loop go on to the next pattern
NextIndex(i, outcome, n) == i + 1

\* data = fetch_data(ticker); main returns when it is empty
FetchData(r) ==
    /\ pc[r] = "fetch"
    /\ \/ pc' = [pc EXCEPT ![r] = "aborted"]
       \/ pc' = [pc EXCEPT ![r] = "call"]
    /\ UNCHANGED <<callVars, patterns, idx, pending, processed, finalized, fs, shared>>

\* add_title, then pattern_function(data): the plot function saves the image
CallPattern(r) ==
    /\ pc[r] = "call"
    /\ \E outcome \in Outcomes :
         LET path == ImagePath(patterns[idx[r]], r) IN
         /\ pending' = [pending EXCEPT ![r] = outcome]
         /\ fs' = IF outcome = "image" THEN [fs EXCEPT ![path] = r] ELSE fs
         /\ shared' = [shared EXCEPT
                !.overwritten = @ \/ (outcome = "image" /\ fs[path] \notin {0, r}),
                !.raised = IF outcome = "raise" THEN @ \cup {r} ELSE @]
    /\ pc' = [pc EXCEPT ![r] = "report"]
    /\ UNCHANGED <<callVars, patterns, idx, processed, finalized>>

\* add_paragraph and add_image, or the error paragraph; then add_line and
\* the next iteration
ReportPattern(r) ==
    /\ pc[r] = "report"
    /\ LET path == ImagePath(patterns[idx[r]], r)
           next == NextIndex(idx[r], pending[r], Len(patterns))
       IN /\ shared' = [shared EXCEPT !.embedded_foreign =
                          @ \/ (pending[r] = "image" /\ fs[path] \notin {0, r})]
          /\ processed' = [processed EXCEPT ![r] = Append(@, patterns[idx[r]])]
          /\ idx' = [idx EXCEPT ![r] = next]
          /\ pc' = [pc EXCEPT ![r] = IF next > Len(patterns) THEN "finalize" ELSE "call"]
    /\ pending' = [pending EXCEPT ![r] = None]
    /\ UNCHANGED <<callVars, patterns, finalized, fs>>

\* pdf.finalize_report(report_name) has returned; a failed save is logged
\* inside it and main goes on
FinalizeReport(r) ==
    /\ pc[r] = "finalize"
    /\ finalized' = [finalized EXCEPT ![r] = TRUE]
    /\ pc' = [pc EXCEPT ![r] = "delete"]
    /\ UNCHANGED <<callVars, patterns, idx, pending, processed, fs, shared>>

\* delete_generated_images(): os.remove of every file glob("*.png") finds
delete_generated_images(r) ==
    /\ pc[r] = "delete"
    /\ fs' = [p \in DOMAIN fs |-> 0]
    /\ shared' = [shared EXCEPT !.removed_foreign =
                    @ \/ (\E p \in DOMAIN fs : fs[p] \notin {0, r})]
    /\ pc' = [pc EXCEPT ![r] = "done"]
    /\ UNCHANGED <<callVars, patterns, idx, pending, processed, finalized>>

MainInit(runs, n) ==
    /\ series = [len |-> MinBarsMARSI, cols |-> RequiredColumns, shape |-> "none",
                 last |-> CHOOSE b \in LastBarSamples : TRUE, plotOK |-> TRUE]
    /\ calls = << >>
    /\ patterns = SubSeq(PatternList, 1, n)
    /\ pc = [r \in runs |-> "fetch"]
    /\ idx = [r \in runs |-> 1]
    /\ pending = [r \in runs |-> None]
    /\ processed = [r \in runs |-> << >>]
    /\ finalized = [r \in runs |-> FALSE]
    /\ fs = [p \in { ImagePath(PatternList[i], 0) : i \in 1..n } |-> 0]
    /\ shared = [overwritten |-> FALSE, embedded_foreign |-> FALSE,
                 removed_foreign |-> FALSE, raised |-> {}]

MainNext ==
    \/ \E r \in Runs : FetchData(r)
    \/ \E r \in Runs : CallPattern(r)
    \/ \E r \in Runs : ReportPattern(r)
    \/ \E r \in Runs : FinalizeReport(r)
    \/ \E r \in Runs : delete_generated_images(r)

\* one run of main over the whole patterns list
InitMain == MainInit({1}, Len(PatternList))

SpecMain == InitMain /\ [][MainNext]_vars

\* two runs of main in the same working directory
InitPar == MainInit(1..2, ParPatterns)

SpecPar == InitPar /\ [][MainNext]_vars

--------------------------------------------------------------------------
(* Tables given bar by bar: a table is [n, High, Low, Close] with the     *)
(* columns as functions of the bar position 0..n-1; prices are whole      *)
(* numbers and every bar has Low <= Close <= High                         *)

Min2(a, b) == IF a < b THEN a ELSE b
SetMax(S) == CHOOSE x \in S : \A y \in S : y <= x
SetMin(S) == CHOOSE x \in S : \A y \in S : x <= y

Bars(t) == 0..(t.n - 1)

\* no bar: the None a detector returns in place of an index label
NoBar == -1

\* the positions first..last that exist, as df.iloc[first:last+1] gives them
Slice(t, first, last) ==
    (IF first < 0 THEN 0 ELSE first)..(IF last > t.n - 1 THEN t.n - 1 ELSE last)

\* abs(a - b) / base > pct / 100 in floating point, for whole a, b, base:
\* the quotient is exact or further from pct / 100 than rounding reaches
PctExceeds(a, b, base, pct) == base > 0 /\ 100 * Abs(a - b) > pct * base

\* ---- DoubleTop.py, bar by bar
\* lines 64-68: is_peak is set for i in range(window, len - window) when
\* High[i] equals the maximum of High[i-window : i+window+1]
is_peak(t, i) ==
    /\ PeakWindow <= i
    /\ i < t.n - PeakWindow
    /\ t.High[i] = SetMax({ t.High[k] : k \in Slice(t, i - PeakWindow, i + PeakWindow) })

Positions(t) == [k \in 1..t.n |-> k - 1]

\* lines 71-72: peaks = df_copy[df_copy['is_peak'] == True], in index order
double_top_peaks(t) == SelectSeq(Positions(t), LAMBDA i : is_peak(t, i))

\* lines 97-101: the lowest Low from the first to the second peak
\* (variant: the support read from the closes between the peaks)
neckline_price_by_close(t, first, second) ==
    SetMin({ t.Close[k] : k \in Slice(t, first, second) })

neckline_price(t, first, second) == SetMin({ t.Low[k] : k \in Slice(t, first, second) })

\* (variant: the search ends 30 bars after the second peak)
breakdown_idx_within_30(t, second, neckline) ==
    LET breakdown == { k \in Slice(t, second, second + 30) : t.Close[k] < neckline }
    IN IF breakdown = {} THEN NoBar ELSE SetMin(breakdown)

\* (variant: the last bar closing below the support)
breakdown_idx_last(t, second, neckline) ==
    LET breakdown == { k \in Slice(t, second, t.n - 1) : t.Close[k] < neckline }
    IN IF breakdown = {} THEN NoBar ELSE SetMax(breakdown)

\* lines 110-116: the first bar from the second peak on whose Close is
\* below the neckline, or none
breakdown_idx(t, second, neckline) ==
    LET breakdown == { k \in Slice(t, second, t.n - 1) : t.Close[k] < neckline }
    IN IF breakdown = {} THEN NoBar ELSE SetMin(breakdown)

NoDoubleTop(peaks) ==
    [exc |-> "none", peaks |-> peaks, first |-> NoBar, second |-> NoBar, breakdown |-> NoBar]

RECURSIVE double_top_second(_, _, _, _)
\* lines 79-117: for j in range(i + 1, len(peaks)): the tests of one pair,
\* each failed test a continue; a pair that passes them all is returned
double_top_second(t, peaks, i, j) ==
    IF j > Len(peaks) THEN NoDoubleTop(peaks)
    ELSE LET first == peaks[i]
             second == peaks[j]
             neckline == neckline_price(t, first, second)
             breakdown == breakdown_idx(t, second, neckline)
         IN IF second - first < MinPeakDistance
                THEN double_top_second(t, peaks, i, j + 1)
            ELSE IF t.High[first] = 0
                THEN [NoDoubleTop(peaks) EXCEPT !.exc = "ZeroDivisionError"]
            ELSE IF PctExceeds(t.High[first], t.High[second], t.High[first], MaxPriceDiffPct)
                THEN double_top_second(t, peaks, i, j + 1)
            ELSE IF t.n - second < MinBarsAfterSecondPeak
                THEN double_top_second(t, peaks, i, j + 1)
            ELSE IF breakdown = NoBar
                THEN double_top_second(t, peaks, i, j + 1)
            ELSE [exc |-> "none", peaks |-> peaks, first |-> first,
                  second |-> second, breakdown |-> breakdown]

RECURSIVE double_top_pairs_latest_first(_, _, _)
\* (variant: the outer loop runs from the latest first peak to the earliest)
double_top_pairs_latest_first(t, peaks, i) ==
    IF i > Len(peaks) - 1 THEN NoDoubleTop(peaks)
    ELSE LET r == double_top_second(t, peaks, Len(peaks) - i, Len(peaks) - i + 1)
         IN IF r.exc # "none" \/ r.first # NoBar THEN r
            ELSE double_top_pairs_latest_first(t, peaks, i + 1)

RECURSIVE double_top_pairs(_, _, _)
\* line 78: for i in range(len(peaks) - 1), left by the first return (or
\* exception) of the inner loop
double_top_pairs(t, peaks, i) ==
    IF i > Len(peaks) - 1 THEN NoDoubleTop(peaks)
    ELSE LET r == double_top_second(t, peaks, i, i + 1)
         IN IF r.exc # "none" \/ r.first # NoBar THEN r
            ELSE double_top_pairs(t, peaks, i + 1)

\* detect_double_top on a table with its price columns
detect_double_top_bars(t) ==
    IF t.n < MinBarsDoubleTop THEN NoDoubleTop(<< >>)
    ELSE LET peaks == double_top_peaks(t) IN
         IF Len(peaks) < 2 THEN NoDoubleTop(peaks)
         ELSE double_top_pairs(t, peaks, 1)

NoReport(msg, status) ==
    [msg |-> msg, status |-> status, first |-> NoBar, second |-> NoBar,
     breakdown |-> NoBar, neckline |-> 0, target |-> 0]

\* invokeDoubleTop on a table with its price columns, lines 219-271: the
\* landmarks, the neckline and the target of the message, and its status
invokeDoubleTop_bars(t) ==
    IF t.n < MinBarsDoubleTop THEN NoReport("Insufficient data", None)
    ELSE LET d == detect_double_top_bars(t) IN
      IF d.exc # "none" THEN NoReport("Error", d.exc)
      ELSE IF d.first = NoBar THEN NoReport("No pattern detected", None)
      ELSE LET neckline == neckline_price(t, d.first, d.second)
               target == neckline - (t.High[d.first] - neckline)
               current == t.Close[t.n - 1]
           IN IF current = 0 THEN NoReport("Error", "ZeroDivisionError")
              ELSE [msg |-> "Pattern detected",
                    status |-> IF current < neckline THEN "Breakdown confirmed"
                               ELSE "Awaiting breakdown",
                    first |-> d.first, second |-> d.second, breakdown |-> d.breakdown,
                    neckline |-> neckline, target |-> target]

\* ---- DoubleBottom.py, bar by bar
\* lines 138-144: rolling(window=window_size, center=True).min() has no
\* value where the window is incomplete, and Low == rolling_min is False
\* there
is_low(t, i) ==
    LET half == LowWindow \div 2 IN
    /\ half <= i
    /\ i < t.n - half
    /\ t.Low[i] = SetMin({ t.Low[k] : k \in Slice(t, i - half, i + half) })

\* (variant: the potential lows ordered by price, lowest first)
low_indices_by_price(t) ==
    SortSeq(SelectSeq(Positions(t), LAMBDA i : is_low(t, i)),
            LAMBDA a, b : t.Low[a] < t.Low[b])

\* line 151: low_indices = potential_lows.index.tolist()
low_indices(t) == SelectSeq(Positions(t), LAMBDA i : is_low(t, i))

\* lines 184-189: the highest High from the first to the second low
resistance_price(t, first, second) == SetMax({ t.High[k] : k \in Slice(t, first, second) })

\* lines 192-201: the first bar from the second low on whose Close is
\* above the resistance, or none
breakout_idx(t, second, resistance) ==
    LET breakout == { k \in Slice(t, second, t.n - 1) : t.Close[k] > resistance }
    IN IF breakout = {} THEN NoBar ELSE SetMin(breakout)

RECURSIVE double_bottom_second(_, _, _, _)
\* lines 155-201: for j in range(i + 1, len(low_indices))
double_bottom_second(t, lows, i, j) ==
    IF j > Len(lows) THEN NoDoubleTop(lows)
    ELSE LET first == lows[i]
             second == lows[j]
             resistance == resistance_price(t, first, second)
             breakout == breakout_idx(t, second, resistance)
         IN IF second - first < MinLowDistance
                THEN double_bottom_second(t, lows, i, j + 1)
            ELSE IF t.Low[first] = 0
                THEN [NoDoubleTop(lows) EXCEPT !.exc = "ZeroDivisionError"]
            ELSE IF PctExceeds(t.Low[first], t.Low[second], t.Low[first], MinDepthPct)
                THEN double_bottom_second(t, lows, i, j + 1)
            ELSE IF breakout = NoBar
                THEN double_bottom_second(t, lows, i, j + 1)
            ELSE [exc |-> "none", peaks |-> lows, first |-> first,
                  second |-> second, breakdown |-> breakout]

RECURSIVE double_bottom_pairs(_, _, _)
\* line 154: for i in range(len(low_indices) - 1)
double_bottom_pairs(t, lows, i) ==
    IF i > Len(lows) - 1 THEN NoDoubleTop(lows)
    ELSE LET r == double_bottom_second(t, lows, i, i + 1)
         IN IF r.exc # "none" \/ r.first # NoBar THEN r
            ELSE double_bottom_pairs(t, lows, i + 1)

\* detect_double_bottom on a table with its four price columns; the
\* result has the fields of a Double Top result: peaks holds the lows and
\* breakdown the breakout point
detect_double_bottom_bars(t) ==
    IF t.n < MinLowDistance * 2 THEN NoDoubleTop(<< >>)
    ELSE LET lows == low_indices(t) IN
         IF Len(lows) < 2 THEN NoDoubleTop(lows)
         ELSE double_bottom_pairs(t, lows, 1)

\* ---- FallingWedge.py, the extrema of detect_falling_wedge
\* lines 108-121: the centred rolling maximum; interpolate() holds the last
\* value over the bars after the last full window, and the bars before
\* the first full window are filled with their own High
wedge_rolling_max(t, i) ==
    LET half == WedgeWindow \div 2
        full(k) == SetMax({ t.High[j] : j \in Slice(t, k - half, k + half) })
    IN IF i < half THEN t.High[i]
       ELSE IF i < t.n - half THEN full(i)
       ELSE full(t.n - half - 1)

\* lines 109-121: likewise the centred rolling minimum of Low
wedge_rolling_min(t, i) ==
    LET half == WedgeWindow \div 2
        full(k) == SetMin({ t.Low[j] : j \in Slice(t, k - half, k + half) })
    IN IF i < half THEN t.Low[i]
       ELSE IF i < t.n - half THEN full(i)
       ELSE full(t.n - half - 1)

\* lines 143-150: for i in range(len(df_copy)), appending in that order
wedge_peak_indices(t) ==
    SelectSeq(Positions(t), LAMBDA i : t.High[i] = wedge_rolling_max(t, i))

wedge_trough_indices(t) ==
    SelectSeq(Positions(t), LAMBDA i : t.Low[i] = wedge_rolling_min(t, i))

\* lines 100-150: the extrema detect_falling_wedge goes on with
falling_wedge_extrema(t) ==
    IF t.n < MinBarsDetectWedge THEN [peaks |-> << >>, troughs |-> << >>]
    ELSE [peaks |-> wedge_peak_indices(t), troughs |-> wedge_trough_indices(t)]

--------------------------------------------------------------------------
(* The tables the scans are run on *)

\* where the highs of a table may culminate, and how high
PeakSlots == {3, 20, 24, 30, 60}
HighLevels == {200, 206, 208}

\* the culminations of one table: two slots, or three of these, each with
\* its level
SlotChoices ==
    { S \in SUBSET PeakSlots : Cardinality(S) = 2 }
      \cup { {20, 30, 60}, {20, 24, 60}, {3, 20, 30} }

SpikeChoices == UNION { [S -> HighLevels] : S \in SlotChoices }

\* a close far from the bar's usual range at one bar, or from one bar on
NoDrop == [at |-> ScanLen, level |-> 0, stay |-> FALSE]
Drops == {NoDrop} \cup [at : {62, 96}, level : {100, 172}, stay : BOOLEAN]

\* highs ramp up to and down from every culmination, one unit a bar
Hump(spikes, i) == SetMax({ spikes[s] - Abs(i - s) : s \in DOMAIN spikes })

\* every bar has Low <= Close <= High, as the bars of Main.py have
\* (generate_mock_data, lines 63-70, and market data)
HumpTable(spikes, drop) ==
    LET dropped(i) == i = drop.at \/ (drop.stay /\ i > drop.at)
        close(i) == IF dropped(i) THEN drop.level ELSE Hump(spikes, i) - 5
    IN [ n |-> ScanLen,
         High |-> [i \in 0..(ScanLen - 1) |->
                     IF close(i) > Hump(spikes, i) THEN close(i) ELSE Hump(spikes, i)],
         Low |-> [i \in 0..(ScanLen - 1) |-> Min2(Hump(spikes, i) - 10, close(i))],
         Close |-> [i \in 0..(ScanLen - 1) |-> close(i)] ]

HumpTables == { HumpTable(spikes, drop) : spikes \in SpikeChoices, drop \in Drops }

\* two highs of 150 at positions 20 and 60 and a low of 120 between them
\* (at position 40); no bar is below 120 except as the bar at position at
\* is given, and the bars after it if stay
TwoTops150(at, bar, stay) ==
    LET high(i) == 150 - Min2(Min2(Abs(i - 20), Abs(i - 60)), 20)
        given(i) == i = at \/ (stay /\ i > at)
    IN [ n |-> ScanLen,
         High |-> [i \in 0..(ScanLen - 1) |-> IF given(i) THEN bar.High ELSE high(i)],
         Low |-> [i \in 0..(ScanLen - 1) |-> IF given(i) THEN bar.Low ELSE high(i) - 10],
         Close |-> [i \in 0..(ScanLen - 1) |-> IF given(i) THEN bar.Close ELSE high(i) - 5] ]

\* ... and a close of 155 after position 70
TwoTopsClose155 == TwoTops150(75, [High |-> 160, Low |-> 130, Close |-> 155], FALSE)

\* ... and closes of 115 from position 75 on
TwoTopsClose115 == TwoTops150(75, [High |-> 135, Low |-> 115, Close |-> 115], TRUE)

\* ... and a close of 115 at position 75 only
TwoTopsClose115Once == TwoTops150(75, [High |-> 135, Low |-> 115, Close |-> 115], FALSE)

\* ... and closes of 115 from position 95 on, 35 bars after the second high
TwoTopsClose115Late == TwoTops150(95, [High |-> 130, Low |-> 115, Close |-> 115], TRUE)

\* a table upside down: lows culminate downwards and a drop is a surge
Mirror(t) ==
    [ n |-> t.n,
      High |-> [i \in 0..(t.n - 1) |-> 400 - t.Low[i]],
      Low |-> [i \in 0..(t.n - 1) |-> 400 - t.High[i]],
      Close |-> [i \in 0..(t.n - 1) |-> 400 - t.Close[i]] ]

ScanTables ==
    HumpTables \cup { Mirror(t) : t \in HumpTables }
      \cup {TwoTopsClose155, TwoTopsClose115, TwoTopsClose115Once,
            TwoTopsClose115Late, Mirror(TwoTopsClose115Late)}

\* one call on a table given bar by bar
Scan(fn, res) ==
    /\ calls = << >>
    /\ calls' = << [fn |-> fn, res |-> res] >>
    /\ UNCHANGED <<series, mainVars>>

DetectDoubleTop == Scan("detect_double_top", detect_double_top_bars(series))
InvokeDoubleTopBars == Scan("invokeDoubleTop", invokeDoubleTop_bars(series))
DetectDoubleBottom == Scan("detect_double_bottom", detect_double_bottom_bars(series))
FallingWedgeExtrema == Scan("detect_falling_wedge", falling_wedge_extrema(series))

InitScan ==
    /\ series \in ScanTables
    /\ calls = << >>
    /\ MainIdle

NextScan ==
    \/ DetectDoubleTop
    \/ InvokeDoubleTopBars
    \/ DetectDoubleBottom
    \/ FallingWedgeExtrema

SpecScan == InitScan /\ [][NextScan]_vars

--------------------------------------------------------------------------
(* HeadAndShoulder.py, bar by bar *)

\* bars of a table handed to detect_head_and_shoulders
HSLen == 40

\* lines 137-143: High == rolling(window_size, center=True).max(), which
\* has no value where the window is incomplete
hs_is_peak(t, i) ==
    LET half == HSWindow \div 2 IN
    /\ half <= i
    /\ i < t.n - half
    /\ t.High[i] = SetMax({ t.High[k] : k \in Slice(t, i - half, i + half) })

\* line 149: peak_indices = potential_peaks.index.tolist()
hs_peak_indices(t) == SelectSeq(Positions(t), LAMBDA i : hs_is_peak(t, i))

\* lines 175-176: section['Low'].idxmin(), the first bar with the lowest
\* Low from position from to position to
idxmin_low(t, from, to) ==
    LET lowest == SetMin({ t.Low[k] : k \in from..to })
    IN SetMin({ k \in from..to : t.Low[k] = lowest })

\* (variant: the bar's close compared with the neckline)
below_neckline_by_close(t, lt, rt, k) ==
    /\ rt # lt
    /\ t.Close[k] * (rt - lt)
          < t.Low[lt] * (rt - lt) + (k - lt) * (t.Low[rt] - t.Low[lt])

\* lines 196-206: current_low < left_trough_price + position_ratio *
\* (right_trough_price - left_trough_price), with position_ratio =
\* (idx - left_trough_idx) / (right_trough_idx - left_trough_idx);
\* both sides are multiplied by the positive rt - lt
below_neckline(t, lt, rt, k) ==
    /\ rt # lt
    /\ t.Low[k] * (rt - lt)
          < t.Low[lt] * (rt - lt) + (k - lt) * (t.Low[rt] - t.Low[lt])

\* lines 186-208: the first bar from the right shoulder on below the
\* neckline, or none
hs_breakdown_point(t, rs, lt, rt) ==
    LET breakdown == { k \in Slice(t, rs, t.n - 1) : below_neckline(t, lt, rt, k) }
    IN IF breakdown = {} THEN NoBar ELSE SetMin(breakdown)

NoHeadAndShoulders ==
    [exc |-> "none", ls |-> NoBar, head |-> NoBar, rs |-> NoBar,
     lt |-> NoBar, rt |-> NoBar, breakdown |-> NoBar]

RECURSIVE hs_triples(_, _, _)
\* lines 152-214: for i in range(len(peak_indices) - 2)
hs_triples(t, peaks, i) ==
    IF i > Len(peaks) - 2 THEN NoHeadAndShoulders
    ELSE LET ls == peaks[i]
             head == peaks[i + 1]
             rs == peaks[i + 2]
             lt == idxmin_low(t, ls, head)
             rt == idxmin_low(t, head, rs)
             breakdown == hs_breakdown_point(t, rs, lt, rt)
         IN IF ~(t.High[head] > t.High[ls] /\ t.High[head] > t.High[rs])
                THEN hs_triples(t, peaks, i + 1)
            ELSE IF t.High[ls] = 0
                THEN [NoHeadAndShoulders EXCEPT !.exc = "ZeroDivisionError"]
            ELSE IF ~(100 * Abs(t.High[ls] - t.High[rs]) < ShoulderDiffPct * t.High[ls])
                THEN hs_triples(t, peaks, i + 1)
            ELSE IF breakdown = NoBar
                THEN hs_triples(t, peaks, i + 1)
            ELSE [exc |-> "none", ls |-> ls, head |-> head, rs |-> rs,
                  lt |-> lt, rt |-> rt, breakdown |-> breakdown]

\* detect_head_and_shoulders on a table with its four price columns
detect_head_and_shoulders_bars(t) ==
    IF t.n < HSWindow * 3 THEN NoHeadAndShoulders
    ELSE LET peaks == hs_peak_indices(t) IN
         IF Len(peaks) < 3 THEN NoHeadAndShoulders
         ELSE hs_triples(t, peaks, 1)

\* highs ramp two units a bar up to and down from a left shoulder at
\* position 8, a head at 16 and a right shoulder at 24, over a floor of
\* 90; lows are 10 and closes 5 below the highs, but not below 88 and 89
\* after the right shoulder
HSHigh(levels, i) ==
    LET ramp(s) == levels[s] - 2 * Abs(i - s)
        top == SetMax({ ramp(s) : s \in DOMAIN levels })
    IN IF top < 90 THEN 90 ELSE top

\* the low of one bar after the right shoulder dips, or the lows from that
\* bar on; the close follows the low lag bars later (or never)
NoDip == [at |-> HSLen, low |-> 0, stay |-> FALSE, lag |-> HSLen]
Dips ==
    {NoDip} \cup [at : {29, 34}, low : {80, 87, 88}, stay : BOOLEAN, lag : {0, 3, HSLen}]

HSTable(levels, dip) ==
    LET dipped(i) == i = dip.at \/ (dip.stay /\ i > dip.at)
        high(i) == HSHigh(levels, i)
        low(i) == IF dipped(i) THEN dip.low
                  ELSE IF i > 24 /\ high(i) - 10 < 88 THEN 88 ELSE high(i) - 10
        close(i) == IF dipped(i) /\ i >= dip.at + dip.lag THEN dip.low
                    ELSE IF i > 24 /\ high(i) - 5 < 89 THEN 89 ELSE high(i) - 5
    IN [ n |-> HSLen,
         High |-> [i \in 0..(HSLen - 1) |-> high(i)],
         Low |-> [i \in 0..(HSLen - 1) |-> low(i)],
         Close |-> [i \in 0..(HSLen - 1) |-> close(i)] ]

HSLevels == [{8} -> {100, 104}] \X [{16} -> {110, 104}] \X [{24} -> {100, 96}]

HSTables ==
    { HSTable(l[1] @@ l[2] @@ l[3], dip) : l \in HSLevels, dip \in Dips }

\* the neckline of every triple of consecutive peaks with the shape, at
\* every bar from the right shoulder on, is a value the floating-point
\* interpolation of lines 199-202 computes exactly wherever a low lies on
\* it: the troughs are level, or their distance is a power of two
ExactNeckline(t) ==
    LET peaks == hs_peak_indices(t) IN
    \A i \in 1..(Len(peaks) - 2) :
        LET lt == idxmin_low(t, peaks[i], peaks[i + 1])
            rt == idxmin_low(t, peaks[i + 1], peaks[i + 2])
        IN \/ lt = rt
           \/ t.Low[lt] = t.Low[rt]
           \/ rt - lt \in {1, 2, 4, 8, 16, 32}
           \/ \A k \in peaks[i + 2]..(t.n - 1) :
                 t.Low[k] * (rt - lt)
                    # t.Low[lt] * (rt - lt) + (k - lt) * (t.Low[rt] - t.Low[lt])

DetectHeadAndShoulders ==
    Scan("detect_head_and_shoulders", detect_head_and_shoulders_bars(series))

InitHS ==
    /\ series \in { t \in HSTables : ExactNeckline(t) }
    /\ calls = << >>
    /\ MainIdle

NextHS == DetectHeadAndShoulders

SpecHS == InitHS /\ [][NextHS]_vars

--------------------------------------------------------------------------
(* RisingWedge.py and FallingWedge.py, bar by bar.  np.polyfit(x, y, 1) is
   the least-squares line; its slope is FitN / FitD and its value at
   position x is FitAt / (MinPoints * FitD), kept as integer numerators
   over the positive denominators *)

\* bars of a table handed to the wedge detectors
WedgeLen == 40

RECURSIVE SumSeq(_)
SumSeq(s) == IF s = << >> THEN 0 ELSE Head(s) + SumSeq(Tail(s))

\* the values of a column at the positions xs
ValuesAt(col, xs) == [k \in DOMAIN xs |-> col[xs[k]]]

\* slope numerator n * sum(x y) - sum(x) sum(y)
FitN(xs, ys) ==
    Len(xs) * SumSeq([k \in DOMAIN xs |-> xs[k] * ys[k]]) - SumSeq(xs) * SumSeq(ys)

\* slope denominator n * sum(x^2) - sum(x)^2, positive for distinct xs
FitD(xs) ==
    Len(xs) * SumSeq([k \in DOMAIN xs |-> xs[k] * xs[k]]) - SumSeq(xs) * SumSeq(xs)

\* slope * x + intercept, times Len(xs) * FitD(xs)
FitAt(xs, ys, x) ==
    Len(xs) * FitN(xs, ys) * x + FitD(xs) * SumSeq(ys) - FitN(xs, ys) * SumSeq(xs)

\* RisingWedge.py 135-150: High == rolling_max and Low == rolling_min,
\* False where the centred window is incomplete
rw_peak_indices(t) ==
    LET half == WedgeWindow \div 2 IN
    SelectSeq(Positions(t), LAMBDA i :
        /\ half <= i /\ i < t.n - half
        /\ t.High[i] = SetMax({ t.High[k] : k \in Slice(t, i - half, i + half) }))

rw_trough_indices(t) ==
    LET half == WedgeWindow \div 2 IN
    SelectSeq(Positions(t), LAMBDA i :
        /\ half <= i /\ i < t.n - half
        /\ t.Low[i] = SetMin({ t.Low[k] : k \in Slice(t, i - half, i + half) }))

RECURSIVE first_sloped(_, _, _, _)
\* RisingWedge.py 157-168 and 175-186, FallingWedge.py 166-177 and 184-195:
\* the first min_points consecutive extrema whose fitted slope has the
\* sign asked for, or the empty list
first_sloped(col, indices, sign, i) ==
    IF i > Len(indices) - (MinPoints - 1) THEN << >>
    ELSE LET potential == SubSeq(indices, i, i + MinPoints - 1)
         IN IF sign * FitN(potential, ValuesAt(col, potential)) > 0 THEN potential
            ELSE first_sloped(col, indices, sign, i + 1)

\* (variant: the close compared with the line projected from its last point on)
crosses_line_flat(t, line, col, k, sign) ==
    sign * (t.Close[k] - col[line[Len(line)]]) > 0

\* RisingWedge.py 212-221, FallingWedge.py 226-236: the close of bar k is
\* above (sign 1) or below (sign -1) slope * x_pos + intercept of the line
\* fitted to col at the positions line
crosses_line(t, line, col, k, sign) ==
    LET ys == ValuesAt(col, line)
    IN sign * (t.Close[k] * Len(line) * FitD(line) - FitAt(line, ys, k)) > 0

\* RisingWedge.py 205-223, FallingWedge.py 215-236: the first bar after
\* last_point whose close crosses the line, or none
wedge_break_point(t, upper, lower, line, col, sign) ==
    LET last_point == IF upper[Len(upper)] > lower[Len(lower)]
                      THEN upper[Len(upper)] ELSE lower[Len(lower)]
        crossing == { k \in (last_point + 1)..(t.n - 1) : crosses_line(t, line, col, k, sign) }
    IN IF crossing = {} THEN NoBar ELSE SetMin(crossing)

NoWedge == [upper |-> << >>, lower |-> << >>, point |-> NoBar]

\* (variant: the slopes of the two lines are not compared)
wedge_converges_unchecked(t, upper, lower, sign) == TRUE

\* RisingWedge.py 202 (sign 1): not slope_lower <= slope_upper;
\* FallingWedge.py 211 (sign -1): not slope_upper >= slope_lower
wedge_converges(t, upper, lower, sign) ==
    LET nu == FitN(upper, ValuesAt(t.High, upper))
        nl == FitN(lower, ValuesAt(t.Low, lower))
    IN nl * FitD(upper) > nu * FitD(lower)

\* detect_rising_wedge (sign 1) and detect_falling_wedge (sign -1) from
\* their lists of peaks and troughs on
detect_wedge_bars(t, peaks, troughs, sign) ==
    IF t.n < WedgeWindow * 3 THEN NoWedge
    ELSE IF Len(peaks) < MinPoints \/ Len(troughs) < MinPoints THEN NoWedge
    ELSE LET upper == first_sloped(t.High, peaks, sign, 1)
             lower == first_sloped(t.Low, troughs, sign, 1)
         IN IF upper = << >> THEN NoWedge
            ELSE IF lower = << >> THEN NoWedge
            ELSE IF ~wedge_converges(t, upper, lower, sign) THEN NoWedge
            ELSE [upper |-> upper, lower |-> lower,
                  point |-> IF sign = 1
                            THEN wedge_break_point(t, upper, lower, lower, t.Low, -1)
                            ELSE wedge_break_point(t, upper, lower, upper, t.High, 1)]

detect_rising_wedge_bars(t) ==
    detect_wedge_bars(t, rw_peak_indices(t), rw_trough_indices(t), 1)

detect_falling_wedge_bars(t) ==
    detect_wedge_bars(t, wedge_peak_indices(t), wedge_trough_indices(t), -1)

\* highs fall away from every peak three units a bar, lows rise from
\* every trough by lowSlope units a bar, closes lie midway; on the bars
\* of ev.at the close is ev.level
NoEvent == [at |-> {}, level |-> 0]
Events == {NoEvent} \cup [at : {{33}, {37}, {33, 37}}, level : {90, 110, 150, 215}]

WedgeTable(peaks, troughs, lowSlope, ev) ==
    LET high(i) == SetMax({ peaks[q] - 3 * Abs(i - q) : q \in DOMAIN peaks })
        low(i) == SetMin({ troughs[q] + lowSlope * Abs(i - q) : q \in DOMAIN troughs })
        close(i) == IF i \in ev.at THEN ev.level ELSE (high(i) + low(i)) \div 2
    IN [ n |-> WedgeLen,
         High |-> [i \in 0..(WedgeLen - 1) |-> IF close(i) > high(i) THEN close(i) ELSE high(i)],
         Low |-> [i \in 0..(WedgeLen - 1) |-> Min2(low(i), close(i))],
         Close |-> [i \in 0..(WedgeLen - 1) |-> close(i)] ]

\* the peaks of a table: position :> high
UpperChoices ==
    { (5 :> 200) @@ (15 :> 202) @@ (25 :> 204),
      (5 :> 200) @@ (15 :> 204) @@ (25 :> 208),
      (5 :> 200) @@ (15 :> 201) @@ (25 :> 204),
      (0 :> 230) @@ (10 :> 210) @@ (25 :> 200),
      (5 :> 208) @@ (15 :> 204) @@ (25 :> 200) }

\* the troughs of a table: position :> low
LowerChoices ==
    { (10 :> 100) @@ (20 :> 104) @@ (30 :> 108),
      (10 :> 100) @@ (20 :> 102) @@ (30 :> 104),
      (10 :> 100) @@ (20 :> 106) @@ (30 :> 108),
      (10 :> 108) @@ (20 :> 104) @@ (30 :> 100) }

\* an upper line of slope 1/30 and a lower line of slope 40/1178, both
\* rising, 0.0006 apart
NearParallel(ev) ==
    WedgeTable((5 :> 200) @@ (20 :> 200) @@ (35 :> 201),
               (7 :> 100) @@ (20 :> 80) @@ (35 :> 100), 3, ev)

WedgeTables ==
    { WedgeTable(u, l, 1, ev) : u \in UpperChoices, l \in LowerChoices, ev \in Events }
      \cup { NearParallel(ev) : ev \in Events }

\* every triple of consecutive extrema of a list
Triples(indices) ==
    { SubSeq(indices, i, i + MinPoints - 1) : i \in 1..(Len(indices) - (MinPoints - 1)) }

\* no fitted slope is zero, no upper and lower slope are equal and no close
\* lies on a projected line: the comparisons of the detectors are decided
\* by more than the rounding of np.polyfit
ExactFits(t) ==
    \A pk \in {rw_peak_indices(t), wedge_peak_indices(t)},
       tr \in {rw_trough_indices(t), wedge_trough_indices(t)} :
        /\ \A u \in Triples(pk) : FitN(u, ValuesAt(t.High, u)) # 0
        /\ \A l \in Triples(tr) : FitN(l, ValuesAt(t.Low, l)) # 0
        /\ \A u \in Triples(pk), l \in Triples(tr) :
              /\ FitN(l, ValuesAt(t.Low, l)) * FitD(u) # FitN(u, ValuesAt(t.High, u)) * FitD(l)
              /\ \A k \in Bars(t) :
                    /\ t.Close[k] * MinPoints * FitD(u) # FitAt(u, ValuesAt(t.High, u), k)
                    /\ t.Close[k] * MinPoints * FitD(l) # FitAt(l, ValuesAt(t.Low, l), k)

DetectRisingWedge == Scan("detect_rising_wedge", detect_rising_wedge_bars(series))
DetectFallingWedge == Scan("detect_falling_wedge", detect_falling_wedge_bars(series))

InitWedge ==
    /\ series \in { t \in WedgeTables : ExactFits(t) }
    /\ calls = << >>
    /\ MainIdle

NextWedge ==
    \/ DetectRisingWedge
    \/ DetectFallingWedge

SpecWedge == InitWedge /\ [][NextWedge]_vars

--------------------------------------------------------------------------
(* CupAndHandle.py on tables of bars *)

CupLen == 64

\* High.idxmax() of the bars from..to: the first bar with the highest high
idxmax_high(t, from, to) ==
    LET highest == SetMax({ t.High[k] : k \in from..to })
    IN SetMin({ k \in from..to : t.High[k] = highest })

NoCupAndHandle ==
    [exc |-> "none", found |-> FALSE, left_rim |-> NoBar, cup_bottom |-> NoBar,
     right_rim |-> NoBar, handle_bottom |-> NoBar, breakout |-> NoBar]

\* CupAndHandle.py 142-158: the first bar after the handle bottom whose
\* close is above the right rim's high
cup_breakout_idx(t, hb, i) ==
    LET above == { k \in (hb + 1)..(t.n - 1) : t.Close[k] > t.High[i] }
    IN IF above = {} THEN NoBar ELSE SetMin(above)

\* (variant: the handle may be as deep as the cup)
handle_depth_ok_up_to_cup(t, i, hb, cup_depth) ==
    /\ ~(100 * (t.High[i] - t.Low[hb]) < HandleMinDepthPct * t.High[i])
    /\ ~(t.High[i] - t.Low[hb] > cup_depth)

\* CupAndHandle.py 130-136: the handle is at least 3% of the right rim's
\* price and at most half the cup's depth deep
handle_depth_ok(t, i, hb, cup_depth) ==
    /\ ~(100 * (t.High[i] - t.Low[hb]) < HandleMinDepthPct * t.High[i])
    /\ ~(2 * (t.High[i] - t.Low[hb]) > cup_depth)

\* (variant: the handle bottom may lie anywhere above the cup bottom)
handle_above_midpoint_unchecked(t, cb, hb, cup_depth) == TRUE

\* CupAndHandle.py 138-140: the handle bottom is not below the cup's
\* midpoint
handle_above_midpoint(t, cb, hb, cup_depth) ==
    ~(2 * t.Low[hb] < 2 * t.Low[cb] + cup_depth)

\* CupAndHandle.py 78-180: the right rim candidates i in turn; the first
\* that passes every test is returned
RECURSIVE cup_candidates(_, _)
cup_candidates(t, i) ==
    IF i >= t.n - HandleMaxPeriods THEN NoCupAndHandle
    ELSE
      LET left_rim_idx == i - CupMinPeriods
          from == IF left_rim_idx - RimWindow < 0 THEN 0 ELSE left_rim_idx - RimWindow
          lr == idxmax_high(t, from, left_rim_idx + RimWindow - 1)
          cb == idxmin_low(t, lr, i)
          cup_depth == t.High[lr] - t.Low[cb]
          hb == idxmin_low(t, i, i + HandleMaxPeriods - 1)
          bo == cup_breakout_idx(t, hb, i)
      IN IF t.High[lr] = 0
           THEN [NoCupAndHandle EXCEPT !.exc = "ZeroDivisionError"]
         ELSE IF \/ 100 * cup_depth < CupDepthPct * t.High[lr]
                 \/ 100 * Abs(t.High[i] - t.High[lr]) > RimTolerancePct * t.High[lr]
                 \/ ~handle_depth_ok(t, i, hb, cup_depth)
                 \/ ~handle_above_midpoint(t, cb, hb, cup_depth)
                 \/ bo = NoBar
           THEN cup_candidates(t, i + 1)
         ELSE [exc |-> "none", found |-> TRUE, left_rim |-> lr, cup_bottom |-> cb,
               right_rim |-> i, handle_bottom |-> hb, breakout |-> bo]

detect_cup_and_handle_bars(t) ==
    IF t.n < MinBarsCupAndHandle THEN NoCupAndHandle
    ELSE cup_candidates(t, CupMinPeriods)

\* highs fall four units a bar away from the left rim (1000 at bar lp)
\* and the right rim (bar 38), and not below 15 under the right rim after
\* it; lows are 5 below the highs, closes on the lows; one bar at 20 is
\* the cup bottom, one bar hb the handle bottom, and from bar bo on the
\* closes are 5 above the right rim
CupTable(lp, cb, rim, hd, hb, bo) ==
    LET shape(i) == SetMax({ 1000 - 4 * Abs(i - lp), rim - 4 * Abs(i - 38) }
                           \cup (IF i > 38 THEN {rim - 15} ELSE {}))
        high(i) == IF i >= bo THEN rim + 5 ELSE shape(i)
        low(i) == IF i = 20 THEN cb
                  ELSE IF i = hb THEN rim - hd
                  ELSE high(i) - 5
    IN [ n |-> CupLen,
         High |-> [i \in 0..(CupLen - 1) |-> high(i)],
         Low |-> [i \in 0..(CupLen - 1) |-> low(i)],
         Close |-> [i \in 0..(CupLen - 1) |-> IF i >= bo THEN rim + 5 ELSE low(i)] ]

CupTables ==
    { CupTable(lp, cb, rim, hd, hb, hb + wait) :
        lp \in {5, 12}, cb \in {800, 900, 10}, rim \in {1000, 950, 940, 1040},
        hd \in {25, 29, 40, 60, 135, 600}, hb \in {41, 46}, wait \in {2, 10, CupLen} }

DetectCupAndHandle == Scan("detect_cup_and_handle", detect_cup_and_handle_bars(series))

InitCup ==
    /\ series \in CupTables
    /\ calls = << >>
    /\ MainIdle

NextCup == DetectCupAndHandle

SpecCup == InitCup /\ [][NextCup]_vars

--------------------------------------------------------------------------
(* Tables that begin with bars of price 0 *)

\* the table t with its first k bars at price 0
ZeroStart(t, k) ==
    [ n |-> t.n,
      High |-> [i \in 0..(t.n - 1) |-> IF i < k THEN 0 ELSE t.High[i]],
      Low |-> [i \in 0..(t.n - 1) |-> IF i < k THEN 0 ELSE t.Low[i]],
      Close |-> [i \in 0..(t.n - 1) |-> IF i < k THEN 0 ELSE t.Close[i]] ]

\* eleven bars at 0 put a peak of height 0 before the peaks of a Double Top
\* table, ten bars at 0 a left rim of height 0 before the first right rim
\* candidate of a Cup and Handle table; the unchanged tables go with them
ZeroStartTables ==
    LET tops == HumpTables \cup {TwoTopsClose155, TwoTopsClose115,
                                 TwoTopsClose115Once, TwoTopsClose115Late}
    IN { ZeroStart(t, k) : t \in tops, k \in {0, 2 * PeakWindow + 1} }
         \cup { ZeroStart(t, k) : t \in CupTables, k \in {0, RimWindow} }

InitZero ==
    /\ series \in ZeroStartTables
    /\ calls = << >>
    /\ MainIdle

NextZero ==
    \/ DetectDoubleTop
    \/ InvokeDoubleTopBars
    \/ DetectCupAndHandle

SpecZero == InitZero /\ [][NextZero]_vars

--------------------------------------------------------------------------
(* fibonacci_calculator.py: levels are kept in thousandths, so that a
   ratio of 0.236 is the integer 236 and a level of 371.8 is 371800 *)

\* bars of a table handed to FibonacciCalculator
FibBars == 3

\* lines 67-73: the keys of the retracement levels and their ratios
RetracementRatios ==
    ("Fibonacci 0.236 Level" :> 236) @@ ("Fibonacci 0.382 Level" :> 382)
      @@ ("Fibonacci 0.5 Level" :> 500) @@ ("Fibonacci 0.618 Level" :> 618)
      @@ ("Fibonacci 0.786 Level" :> 786)

\* lines 92-96: the keys of the extension levels and their ratios
ExtensionRatios ==
    ("Fibonacci 1.618 Extension" :> 1618) @@ ("Fibonacci 2.618 Extension" :> 2618)
      @@ ("Fibonacci 3.618 Extension" :> 3618)

\* lines 54-75
calculate_fibonacci_levels(t, swing_low_index, swing_high_index) ==
    LET swing_low_price == t.Low[swing_low_index]
        swing_high_price == t.High[swing_high_index]
        price_range == swing_high_price - swing_low_price
    IN [k \in DOMAIN RetracementRatios |->
           1000 * swing_low_price + price_range * RetracementRatios[k]]

\* (variant: extensions projected from the swing high)
calculate_fibonacci_extensions_from_high(t, swing_low_index, swing_high_index, breakout_index) ==
    LET swing_high_price == t.High[swing_high_index]
        swing_low_price == t.Low[swing_low_index]
        price_range == swing_high_price - swing_low_price
    IN [k \in DOMAIN ExtensionRatios |->
           1000 * swing_high_price + price_range * ExtensionRatios[k]]

\* lines 77-98: the breakout price is the High of the breakout bar
calculate_fibonacci_extensions(t, swing_low_index, swing_high_index, breakout_index) ==
    LET swing_high_price == t.High[swing_high_index]
        swing_low_price == t.Low[swing_low_index]
        breakout_price == t.High[breakout_index]
        price_range == swing_high_price - swing_low_price
    IN [k \in DOMAIN ExtensionRatios |->
           1000 * breakout_price + price_range * ExtensionRatios[k]]

\* line 113: {**retracements, **extensions}
MergeDicts(a, b) ==
    [k \in DOMAIN a \cup DOMAIN b |-> IF k \in DOMAIN b THEN b[k] ELSE a[k]]

\* lines 100-115
calculate_all_fibonacci_levels(t, swing_low_index, swing_high_index, breakout_index) ==
    MergeDicts(calculate_fibonacci_levels(t, swing_low_index, swing_high_index),
               calculate_fibonacci_extensions(t, swing_low_index, swing_high_index,
                                              breakout_index))

\* a table whose bar 0 has the low l, bar 1 the high h and every later
\* bar the high b
FibTable(l, h, b) ==
    LET low(i) == IF i = 0 THEN l ELSE IF i = 1 THEN h - 30 ELSE b - 15
        high(i) == IF i = 0 THEN l + 20 ELSE IF i = 1 THEN h ELSE b
    IN [ n |-> FibBars,
         High |-> [i \in 0..(FibBars - 1) |-> high(i)],
         Low |-> [i \in 0..(FibBars - 1) |-> low(i)],
         Close |-> [i \in 0..(FibBars - 1) |-> low(i) + 5] ]

FibTables == { FibTable(l, h, b) : l \in {90, 100}, h \in {200, 205}, b \in {210, 236} }

FibCall(fn, args, res) ==
    /\ calls = << >>
    /\ calls' = << [fn |-> fn, args |-> args, res |-> res] >>
    /\ UNCHANGED <<series, mainVars>>

CalculateFibonacciLevels ==
    \E lo, hi \in Bars(series) :
        FibCall("calculate_fibonacci_levels", <<lo, hi, NoBar>>,
                calculate_fibonacci_levels(series, lo, hi))

CalculateFibonacciExtensions ==
    \E lo, hi, bo \in Bars(series) :
        FibCall("calculate_fibonacci_extensions", <<lo, hi, bo>>,
                calculate_fibonacci_extensions(series, lo, hi, bo))

CalculateAllFibonacciLevels ==
    \E lo, hi, bo \in Bars(series) :
        FibCall("calculate_all_fibonacci_levels", <<lo, hi, bo>>,
                calculate_all_fibonacci_levels(series, lo, hi, bo))

InitFib ==
    /\ series \in FibTables
    /\ calls = << >>
    /\ MainIdle

NextFib ==
    \/ CalculateFibonacciLevels
    \/ CalculateFibonacciExtensions
    \/ CalculateAllFibonacciLevels

SpecFib == InitFib /\ [][NextFib]_vars

--------------------------------------------------------------------------
(* Properties of the voter, checked under SpecVoter *)

VoterCalls == { i \in DOMAIN calls : calls[i].fn = "analyze_data" }

\* calls of analyze_data that reached the voting step
VotedCalls == { i \in VoterCalls : calls[i].res.sma_signal # None }

BullishCount(res) ==
    Count(res.sma_signal = "Bullish") + Count(res.rsi_signal = "Oversold")
      + Count(res.macd_signal = "Above Signal")

BearishCount(res) ==
    Count(res.sma_signal = "Bearish") + Count(res.rsi_signal = "Overbought")
      + Count(res.macd_signal = "Below Signal")

\* C1: whenever analyze_data reaches the voting step, its direction is the
\* majority of the three votes: Buy if the bullish votes outnumber the
\* bearish ones, Sell if the bearish outnumber the bullish, Hold on a tie.
C1_MajorityDirection ==
    \A i \in VotedCalls :
        LET res == calls[i].res
            bull == BullishCount(res)
            bear == BearishCount(res)
        IN /\ bull > bear => res.signal = "Buy"
           /\ bear > bull => res.signal = "Sell"
           /\ bull = bear => res.signal = "Hold"

\* a tie of one bullish against one bearish vote was returned as Hold
C1_Witness ==
    \E i \in VotedCalls :
        /\ BullishCount(calls[i].res) = 1
        /\ BearishCount(calls[i].res) = 1
        /\ calls[i].res.signal = "Hold"

\* C2: the confidence of analyze_data is |bullish - bearish| / 3 * 100, so
\* it is one of 0, 100/3, 200/3, 100 and lies in 0..100 (here times 3).
C2_ConfidenceFormula ==
    /\ \A i \in VotedCalls :
          LET res == calls[i].res IN
          /\ res.confidence3 = Abs(BullishCount(res) - BearishCount(res)) * 100
          /\ res.confidence3 \in { k * 100 : k \in 0..TotalIndicators }
    /\ \A i \in VoterCalls :
          calls[i].res.confidence3 \in 0..(100 * TotalIndicators)

\* more bearish than bullish votes: Sell, two against one, confidence 100/3
C2_Witness ==
    \E i \in VotedCalls :
        /\ BearishCount(calls[i].res) = 2
        /\ BullishCount(calls[i].res) = 1
        /\ calls[i].res.confidence3 = 100

\* C3: with fewer than 50 bars analyze_data returns the insufficient-data
\* signal with confidence 0 and no indicator vote.
C3_InsufficientData ==
    \A i \in VoterCalls :
        series.len < MinBarsVoter =>
            /\ calls[i].res.signal = "Insufficient data"
            /\ calls[i].res.confidence3 = 0
            /\ calls[i].res.sma_signal = None
            /\ calls[i].res.rsi_signal = None
            /\ calls[i].res.macd_signal = None

\* 49 bars whose latest bar would have been all bullish
C3_Witness ==
    \E i \in VoterCalls :
        /\ series.len = MinBarsVoter - 1
        /\ "Close" \in series.cols
        /\ vote(series.last).signal = "Buy"
        /\ calls[i].res.signal = "Insufficient data"

\* the latest bar of C4: SMA20 > SMA50, RSI = 25, MACD above its signal
C4_Bar(b) == b.sma20 > b.sma50 /\ b.rsi = 25 /\ b.macd > b.macd_signal

\* C4 as stated: on such a bar the voter returns Buy with confidence 100,
\* whatever the latest close is.
C4_BuyFullConfidenceAnyClose ==
    \A i \in VotedCalls :
        C4_Bar(series.last) =>
            calls[i].res.signal = "Buy" /\ calls[i].res.confidence3 = 300

\* C4, amended: on such a bar the voter returns Buy; its confidence is 100
\* when the latest close is above SMA20 and 200/3 (two of three) otherwise.
C4_BuyConfidenceByClose ==
    \A i \in VotedCalls :
        C4_Bar(series.last) =>
            /\ calls[i].res.signal = "Buy"
            /\ calls[i].res.confidence3 =
                 IF series.last.close > series.last.sma20 THEN 300 ELSE 200

\* such a bar with the close not above SMA20 was voted on
C4_Witness ==
    \E i \in VotedCalls :
        /\ C4_Bar(series.last)
        /\ series.last.close <= series.last.sma20
        /\ calls[i].res.sma_signal = "Neutral"
        /\ calls[i].res.confidence3 = 200

--------------------------------------------------------------------------
(* Properties of the matcher entry points, checked under Spec *)

MatcherCalls == { i \in DOMAIN calls : calls[i].fn # "analyze_data" }

ArtifactPaths == ImagePaths \cup {None}

\* C5: every matcher entry point returns a (message, artifact-or-None)
\* pair for every table, too short, lacking columns or making an internal
\* step fail; no exception escapes to the caller.
C5_NoExceptionEscapes ==
    \A i \in MatcherCalls :
        /\ calls[i].res.exc = "none"
        /\ calls[i].res.msg # None
        /\ calls[i].res.artifact \in ArtifactPaths

\* an internal step failed on a table lacking a column, and the failure
\* came back as a message
C5_Witness ==
    \E i \in MatcherCalls :
        /\ series.cols # RequiredColumns
        /\ calls[i].res.msg = "Error"
        /\ calls[i].res.status = "KeyError"
        /\ calls[i].res.exc = "none"

\* C6: on a table shorter than its minimum length (Double Top 20, Double
\* Bottom 10, Head and Shoulders 15, the wedges 20, Cup and Handle 60,
\* Ascending Triangle 30, MA/RSI 200) an entry point returns the
\* insufficient-data message with no artifact; it neither raises nor
\* reports 'no pattern detected' or an error.
C6_ShortSeries ==
    \A i \in MatcherCalls :
        series.len < MinBars(calls[i].fn) =>
            calls[i].res = Result("Insufficient data", None, None)

\* 59 bars, a column missing: Cup and Handle answered insufficient data
C6_Witness ==
    \E i \in MatcherCalls :
        /\ calls[i].fn = "invokeCupAndHandle"
        /\ series.len = MinBarsCupAndHandle - 1
        /\ "High" \notin series.cols
        /\ calls[i].res.msg = "Insufficient data"

\* calls on a table of sufficient length lacking one of Open, High, Low, Close
MissingColumnCalls ==
    { i \in MatcherCalls :
        series.len >= MinBars(calls[i].fn) /\ ~(RequiredColumns \subseteq series.cols) }

--------------------------------------------------------------------------
(* Properties of a report run, checked under SpecMain and SpecPar *)

\* C8: in one report run over non-empty data every pattern of the list is
\* processed exactly once and in list order even if earlier matchers
\* raise; the report is finalized only after all patterns have been
\* processed, and images are deleted only after the report was finalized.
C8_EveryPatternOnceInOrder ==
    \A r \in Runs :
        /\ Len(processed[r]) <= Len(patterns)
        /\ processed[r] = SubSeq(patterns, 1, Len(processed[r]))
        /\ pc[r] \in {"finalize", "delete", "done"} => processed[r] = patterns
        /\ finalized[r] => processed[r] = patterns
        /\ pc[r] \in {"delete", "done"} => finalized[r]

\* a run in which a matcher raised went through the whole list, was
\* finalized and deleted its images
C8_Witness ==
    \E r \in Runs :
        /\ r \in shared.raised
        /\ pc[r] = "done"
        /\ processed[r] = PatternList
        /\ finalized[r]

\* C9: two runs executing in parallel never write, overwrite or delete the
\* same chart artifact path; no interleaving lets one run embed or remove
\* the other run's image.
C9_NoSharedArtifact ==
    /\ ~shared.overwritten
    /\ ~shared.embedded_foreign
    /\ ~shared.removed_foreign

--------------------------------------------------------------------------
(* The caller's table is left alone: checked under Spec *)

--------------------------------------------------------------------------
(* Properties of the bar-by-bar scans, checked under SpecScan *)

ScanDone(fn) == calls # << >> /\ calls[1].fn = fn
ScanResult == calls[1].res

\* what the example expects of the report: a confirmed candidate on the
\* highs at 20 and 60, broken in (70, 90], with target 120 - (150 - 120)
ConfirmedWithTarget90(res) ==
    /\ res.msg = "Pattern detected"
    /\ res.status = "Breakdown confirmed"
    /\ res.first = 20
    /\ res.second = 60
    /\ res.breakdown \in 71..90
    /\ res.neckline = 120
    /\ res.target = 90

\* C12 as stated: with two highs of 150 at positions 20 and 60, a low of
\* 120 between them and a close of 155 after position 70 (at position 75),
\* invokeDoubleTop reports a confirmed candidate broken in (70, 90] with
\* target 90.  A close of 155 is not below the support of 120.
C12_Close155Confirms ==
    (series = TwoTopsClose155 /\ ScanDone("invokeDoubleTop"))
        => ConfirmedWithTarget90(ScanResult)

\* C12, amended: with two highs of 150 at positions 20 and 60, a low of 120
\* between them and closes of 115 from position 75 to the last bar,
\* detect_double_top returns (20, 60, 75) and invokeDoubleTop reports
\* "Breakdown confirmed" with breakdown position 75 in (70, 90] and target
\* 120 - (150 - 120) = 90.
C12_Close115Confirms ==
    series = TwoTopsClose115 =>
        /\ ScanDone("invokeDoubleTop") => ConfirmedWithTarget90(ScanResult)
        /\ ScanDone("detect_double_top") =>
              /\ ScanResult.first = 20
              /\ ScanResult.second = 60
              /\ ScanResult.breakdown = 75

C12_Witness ==
    /\ series = TwoTopsClose115
    /\ series.High[20] = 150 /\ series.High[60] = 150
    /\ neckline_price(series, 20, 60) = 120
    /\ ScanDone("invokeDoubleTop")
    /\ ScanResult.target = 90

StrictlyIncreasing(s) == \A k \in 1..(Len(s) - 1) : s[k] < s[k + 1]

\* C14: the peaks detect_double_top extracts, the lows
\* detect_double_bottom extracts and the peaks and troughs
\* detect_falling_wedge extracts are each strictly increasing in bar
\* position, so no list holds a position twice.
C14_ExtremaStrictlyIncreasing ==
    /\ (ScanDone("detect_double_top") \/ ScanDone("detect_double_bottom"))
          => StrictlyIncreasing(ScanResult.peaks)
    /\ ScanDone("detect_falling_wedge") =>
          /\ StrictlyIncreasing(ScanResult.peaks)
          /\ StrictlyIncreasing(ScanResult.troughs)

\* three or more lows were extracted, a later one lower than an earlier one
C14_Witness ==
    /\ ScanDone("detect_double_bottom")
    /\ Len(ScanResult.peaks) >= 3
    /\ \E k \in 1..(Len(ScanResult.peaks) - 1) :
          series.Low[ScanResult.peaks[k]] > series.Low[ScanResult.peaks[k + 1]]

\* a pair of peaks qualifies as a Double Top: far enough apart, the second
\* high within 3% of the first, and some close from the second peak on
\* below the lowest low between them
QualifiesDoubleTop(t, first, second) ==
    /\ is_peak(t, first) /\ is_peak(t, second)
    /\ second - first >= MinPeakDistance
    /\ 100 * Abs(t.High[first] - t.High[second]) <= MaxPriceDiffPct * t.High[first]
    /\ \E k \in second..(t.n - 1) :
          \A b \in first..second : t.Close[k] < t.Low[b]

\* a pair of lows qualifies as a Double Bottom: far enough apart, the
\* second low within 3% of the first, and some close from the second low
\* on above the highest high between them
QualifiesDoubleBottom(t, first, second) ==
    /\ is_low(t, first) /\ is_low(t, second)
    /\ second - first >= MinLowDistance
    /\ 100 * Abs(t.Low[first] - t.Low[second]) <= MinDepthPct * t.Low[first]
    /\ \E k \in second..(t.n - 1) :
          \A b \in first..second : t.Close[k] > t.High[b]

QualifyingDoubleTops(t) ==
    LET P == { i \in Bars(t) : is_peak(t, i) }
    IN { q \in P \X P : QualifiesDoubleTop(t, q[1], q[2]) }

QualifyingDoubleBottoms(t) ==
    LET P == { i \in Bars(t) : is_low(t, i) }
    IN { q \in P \X P : QualifiesDoubleBottom(t, q[1], q[2]) }

\* res is the lexicographically smallest pair of Q, or no pattern if Q is
\* empty
SmallestQualifying(res, Q) ==
    IF Q = {} THEN res.first = NoBar
    ELSE /\ <<res.first, res.second>> \in Q
         /\ \A q \in Q : \/ res.first < q[1]
                         \/ res.first = q[1] /\ res.second <= q[2]

\* C15: detect_double_top and detect_double_bottom return the
\* lexicographically smallest qualifying pair of extrema (no qualifying
\* pair has an earlier first extremum, or the same first and an earlier
\* second one), and they return a pair whenever a qualifying pair exists.
C15_FirstMatchWins ==
    /\ ScanDone("detect_double_top") =>
          SmallestQualifying(ScanResult, QualifyingDoubleTops(series))
    /\ ScanDone("detect_double_bottom") =>
          SmallestQualifying(ScanResult, QualifyingDoubleBottoms(series))

\* three pairs qualify, on more than one first peak
C15_Witness ==
    /\ ScanDone("detect_double_top")
    /\ ScanResult.first # NoBar
    /\ \E q \in QualifyingDoubleTops(series) : q[1] > ScanResult.first
    /\ \E q \in QualifyingDoubleTops(series) :
          q[1] = ScanResult.first /\ q[2] > ScanResult.second

\* the lowest low from the first to the second peak
SupportBetween(t, first, second) ==
    CHOOSE s \in { t.Low[b] : b \in first..second } :
        \A b \in first..second : s <= t.Low[b]

\* C16: every triple (first peak, second peak, breakdown) that
\* detect_double_top returns has its peaks at least 10 bars apart and
\* their highs within 3% of the first high, and its breakdown bar is the
\* first bar strictly after the second peak whose close is below the
\* support, the lowest low between the two peaks; invokeDoubleTop reports
\* that support.  Bars have Low <= Close <= High.
C16_ReturnedTripleQualifies ==
    /\ (ScanDone("detect_double_top") /\ ScanResult.first # NoBar) =>
          LET res == ScanResult
              support == SupportBetween(series, res.first, res.second)
          IN /\ res.second - res.first >= 10
             /\ 100 * Abs(series.High[res.first] - series.High[res.second])
                    <= 3 * series.High[res.first]
             /\ res.breakdown > res.second
             /\ series.Close[res.breakdown] < support
             /\ \A k \in (res.second + 1)..(res.breakdown - 1) :
                    series.Close[k] >= support
    /\ (ScanDone("invokeDoubleTop") /\ ScanResult.msg = "Pattern detected") =>
          ScanResult.neckline
              = SupportBetween(series, ScanResult.first, ScanResult.second)

\* a triple was returned whose breakdown bar is followed by further closes
\* below the support, and a third peak lies between the two returned
C16_Witness ==
    /\ ScanDone("detect_double_top")
    /\ ScanResult.first # NoBar
    /\ ScanResult.breakdown < series.n - 1
    /\ series.Close[series.n - 1]
          < SupportBetween(series, ScanResult.first, ScanResult.second)
    /\ \E k \in 1..Len(ScanResult.peaks) :
          /\ ScanResult.peaks[k] > ScanResult.first
          /\ ScanResult.peaks[k] < ScanResult.second

\* a pair of peaks has the shape of a Double Top, whatever follows it
ShapeOfDoubleTop(t, first, second) ==
    /\ is_peak(t, first) /\ is_peak(t, second)
    /\ second - first >= MinPeakDistance
    /\ 100 * Abs(t.High[first] - t.High[second]) <= MaxPriceDiffPct * t.High[first]

\* a pair of lows has the shape of a Double Bottom, whatever follows it
ShapeOfDoubleBottom(t, first, second) ==
    /\ is_low(t, first) /\ is_low(t, second)
    /\ second - first >= MinLowDistance
    /\ 100 * Abs(t.Low[first] - t.Low[second]) <= MinDepthPct * t.Low[first]

\* some pair has the shape, and no pair's support is breached by a later
\* close
FormingDoubleTop(t) ==
    /\ \E first, second \in { i \in Bars(t) : is_peak(t, i) } :
          ShapeOfDoubleTop(t, first, second)
    /\ QualifyingDoubleTops(t) = {}

FormingDoubleBottom(t) ==
    /\ \E first, second \in { i \in Bars(t) : is_low(t, i) } :
          ShapeOfDoubleBottom(t, first, second)
    /\ QualifyingDoubleBottoms(t) = {}

\* C17: when a qualifying shape is found but no later close breaches the
\* threshold, the candidate is reported as forming, never as 'no pattern
\* detected': invokeDoubleTop reports a detected pattern awaiting its
\* breakdown, and detect_double_bottom returns the pair of lows.
C17_FormingIsReported ==
    /\ (ScanDone("invokeDoubleTop") /\ FormingDoubleTop(series)) =>
          /\ ScanResult.msg = "Pattern detected"
          /\ ScanResult.status = "Awaiting breakdown"
    /\ (ScanDone("detect_double_bottom") /\ FormingDoubleBottom(series)) =>
          ScanResult.first # NoBar

\* C18: once a bar after the second peak has closed below the support, the
\* candidate is reported as confirmed whatever the later closes are:
\* invokeDoubleTop never reports 'awaiting breakdown' for a candidate for
\* which detect_double_top found a breakdown bar.
C18_BreachStaysConfirmed ==
    (ScanDone("invokeDoubleTop") /\ ScanResult.breakdown # NoBar) =>
        ScanResult.status = "Breakdown confirmed"

\* the bars from position from on whose close is below (above) a level
ClosesBelow(t, from, level) == { k \in from..(t.n - 1) : t.Close[k] < level }
ClosesAbove(t, from, level) == { k \in from..(t.n - 1) : t.Close[k] > level }

ExtremeOfWindow(col, n, i, window, IsBeyond(_, _)) ==
    LET half == window \div 2 IN
    /\ half <= i
    /\ i + half <= n - 1
    /\ \A k \in (i - half)..(i + half) : ~IsBeyond(col[k], col[i])
    /\ \A k \in (i - half)..(i - 1) : col[k] # col[i]

SeqRange(s) == { s[k] : k \in DOMAIN s }

\* C20: a bar is marked a peak exactly when it has a full window around it
\* and its high is the maximum over [i - window \div 2, i + window \div 2],
\* a tie inside the window going to the earliest position only: two bars
\* on each side for detect_double_top's window of 5; symmetrically a low
\* of detect_double_bottom, with its window of 3, on the Low column.
C20_ExtremaByCentredWindow ==
    /\ (ScanDone("detect_double_top") /\ series.n >= MinBarsDoubleTop) =>
          \A i \in Bars(series) :
              i \in SeqRange(ScanResult.peaks)
                <=> ExtremeOfWindow(series.High, series.n, i, PeakWindow,
                                    LAMBDA a, b : a > b)
    /\ (ScanDone("detect_double_bottom") /\ series.n >= MinLowDistance * 2) =>
          \A i \in Bars(series) :
              i \in SeqRange(ScanResult.peaks)
                <=> ExtremeOfWindow(series.Low, series.n, i, LowWindow,
                                    LAMBDA a, b : a < b)

--------------------------------------------------------------------------
(* Properties of the Fibonacci calculator, checked under SpecFib *)

FibDone(fn) == calls # << >> /\ calls[1].fn = fn

\* the swing low L, the swing high H and the breakout B of the call made
FibL == series.Low[calls[1].args[1]]
FibH == series.High[calls[1].args[2]]
FibB == series.High[calls[1].args[3]]

\* level * 1000 = base * 1000 + (H - L) * (r * 1000)
Level(base, milli) == 1000 * base + (FibH - FibL) * milli

\* C13: the retracement levels are L + (H - L) * r for the five ratios
\* 0.236, 0.382, 0.5, 0.618, 0.786, the extension levels are
\* B + (H - L) * r for the three ratios 1.618, 2.618, 3.618, the combined
\* result holds exactly these eight levels, and L = 100, H = 200, B = 210
\* gives a 0.5 retracement of 150.0 and a 1.618 extension of 371.8.
C13_FibonacciLevels ==
    /\ FibDone("calculate_fibonacci_levels") =>
          { calls[1].res[k] : k \in DOMAIN calls[1].res }
              = { Level(FibL, r) : r \in {236, 382, 500, 618, 786} }
    /\ FibDone("calculate_fibonacci_extensions") =>
          { calls[1].res[k] : k \in DOMAIN calls[1].res }
              = { Level(FibB, r) : r \in {1618, 2618, 3618} }
    /\ FibDone("calculate_all_fibonacci_levels") =>
          LET res == calls[1].res IN
          /\ Cardinality(DOMAIN res) = 8
          /\ res["Fibonacci 0.236 Level"] = Level(FibL, 236)
          /\ res["Fibonacci 0.382 Level"] = Level(FibL, 382)
          /\ res["Fibonacci 0.5 Level"] = Level(FibL, 500)
          /\ res["Fibonacci 0.618 Level"] = Level(FibL, 618)
          /\ res["Fibonacci 0.786 Level"] = Level(FibL, 786)
          /\ res["Fibonacci 1.618 Extension"] = Level(FibB, 1618)
          /\ res["Fibonacci 2.618 Extension"] = Level(FibB, 2618)
          /\ res["Fibonacci 3.618 Extension"] = Level(FibB, 3618)
          /\ (FibL = 100 /\ FibH = 200 /\ FibB = 210) =>
                /\ res["Fibonacci 0.5 Level"] = 150000
                /\ res["Fibonacci 1.618 Extension"] = 371800

C13_Witness ==
    /\ FibDone("calculate_all_fibonacci_levels")
    /\ FibL = 100 /\ FibH = 200 /\ FibB = 210
    /\ calls[1].res["Fibonacci 1.618 Extension"] = 371800

--------------------------------------------------------------------------
(* Properties of Head and Shoulders detection, checked under SpecHS *)

\* price is below the line through the lows of the troughs lt < rt at bar k
BelowLine(t, lt, rt, k, price) ==
    price * (rt - lt) < t.Low[lt] * (rt - lt) + (k - lt) * (t.Low[rt] - t.Low[lt])

\* lt and rt are the troughs flanking the head: bars of the lowest low
\* from the left shoulder to the head and from the head to the right
\* shoulder
FlankingTroughs(t, res) ==
    /\ res.lt \in res.ls..res.head
    /\ res.rt \in res.head..res.rs
    /\ res.lt < res.rt
    /\ \A k \in res.ls..res.head : t.Low[res.lt] <= t.Low[k]
    /\ \A k \in res.head..res.rs : t.Low[res.rt] <= t.Low[k]

--------------------------------------------------------------------------
(* invokeDoubleBottom on tables of bars *)

\* DoubleBottom.py 242-271: the pair of lows and the breakout point go to
\* calculate_all_fibonacci_levels as swing low, swing high and breakout
invokeDoubleBottom_bars(t) ==
    IF t.n < MinBarsDoubleBottom
      THEN [msg |-> "Insufficient data", first |-> NoBar, second |-> NoBar,
            breakout |-> NoBar, fib |-> << >>]
    ELSE LET d == detect_double_bottom_bars(t) IN
      IF d.exc # "none"
        THEN [msg |-> "Error", first |-> NoBar, second |-> NoBar,
              breakout |-> NoBar, fib |-> << >>]
      ELSE IF d.first = NoBar
        THEN [msg |-> "No pattern detected", first |-> NoBar, second |-> NoBar,
              breakout |-> NoBar, fib |-> << >>]
      ELSE [msg |-> "Pattern detected", first |-> d.first, second |-> d.second,
            breakout |-> d.breakdown,
            fib |-> calculate_all_fibonacci_levels(t, d.first, d.second, d.breakdown)]

\* lows rise one unit a bar, up to 120, away from a low of 100 at bar 20
\* and a low at bar pos; highs are 10 above the lows, closes 5; the bar at pos is width
\* high, and the bar at surge closes at 135, above every high before it
TwoBottoms(pos, second, width, surge) ==
    LET low(i) == IF i = pos THEN second
                  ELSE 100 + Min2(Min2(Abs(i - 20), Abs(i - pos)), 20)
        high(i) == IF i = surge THEN 140
                   ELSE IF i = pos THEN second + width
                   ELSE low(i) + 10
        close(i) == IF i = surge THEN 135
                    ELSE IF i = pos THEN second + width
                    ELSE low(i) + 5
    IN [ n |-> ScanLen,
         High |-> [i \in 0..(ScanLen - 1) |-> high(i)],
         Low |-> [i \in 0..(ScanLen - 1) |-> low(i)],
         Close |-> [i \in 0..(ScanLen - 1) |-> close(i)] ]

TwoBottomsTables ==
    { TwoBottoms(pos, second, width, surge) :
        pos \in {50, 60}, second \in {97, 98, 100, 102, 104},
        width \in {1, 10}, surge \in {62, 75, ScanLen} }

InvokeDoubleBottomBars == Scan("invokeDoubleBottom", invokeDoubleBottom_bars(series))

InitBottoms ==
    /\ series \in TwoBottomsTables
    /\ calls = << >>
    /\ MainIdle

NextBottoms ==
    \/ DetectDoubleBottom
    \/ InvokeDoubleBottomBars

SpecBottoms == InitBottoms /\ [][NextBottoms]_vars

--------------------------------------------------------------------------
(* Properties of the wedge detectors *)

WedgeReported(fn) == ScanDone(fn) /\ ScanResult.upper # << >>

\* numerator and denominator of the fitted slopes of a reported wedge
UpperN(res) == FitN(res.upper, ValuesAt(series.High, res.upper))
LowerN(res) == FitN(res.lower, ValuesAt(series.Low, res.lower))

\* the slope of the lower line exceeds the slope of the upper line by
\* more than num/den
LowerExceedsUpperBy(res, num, den) ==
    (LowerN(res) * FitD(res.upper) - UpperN(res) * FitD(res.lower)) * den
        > num * FitD(res.upper) * FitD(res.lower)

\* C22 as stated: a rising wedge has two rising lines, a falling wedge two
\* falling lines, and the steeper line is steeper by more than a small
\* epsilon, here a thousandth of a price unit per bar
C22_ConvergesByEpsilon ==
    /\ WedgeReported("detect_rising_wedge") =>
          /\ UpperN(ScanResult) > 0 /\ LowerN(ScanResult) > 0
          /\ LowerExceedsUpperBy(ScanResult, 1, 1000)
    /\ WedgeReported("detect_falling_wedge") =>
          /\ UpperN(ScanResult) < 0 /\ LowerN(ScanResult) < 0
          /\ LowerExceedsUpperBy(ScanResult, 1, 1000)

\* C22 amended: a rising wedge is reported only if both fitted lines rise
\* and the lower one is strictly steeper, a falling wedge only if both
\* fall and the upper one is strictly steeper; any difference of the
\* slopes, however small, is accepted
C22_ConvergesStrictly ==
    /\ WedgeReported("detect_rising_wedge") =>
          /\ UpperN(ScanResult) > 0 /\ LowerN(ScanResult) > 0
          /\ LowerExceedsUpperBy(ScanResult, 0, 1)
    /\ WedgeReported("detect_falling_wedge") =>
          /\ UpperN(ScanResult) < 0 /\ LowerN(ScanResult) < 0
          /\ LowerExceedsUpperBy(ScanResult, 0, 1)

\* a rising wedge reported on two lines less than a thousandth apart
C22_Witness ==
    /\ WedgeReported("detect_rising_wedge")
    /\ LowerExceedsUpperBy(ScanResult, 0, 1)
    /\ ~LowerExceedsUpperBy(ScanResult, 1, 1000)

\* the last bar of the later of the two trendlines of a reported wedge
LastPoint(res) == SetMax({res.upper[Len(res.upper)], res.lower[Len(res.lower)]})

\* the bars after the trendlines whose close is below the projected lower
\* line (rising wedge) or above the projected upper line (falling wedge)
ClosesBelowLower(res) ==
    { k \in Bars(series) :
        /\ k > LastPoint(res)
        /\ series.Close[k] * MinPoints * FitD(res.lower)
              < FitAt(res.lower, ValuesAt(series.Low, res.lower), k) }
ClosesAboveUpper(res) ==
    { k \in Bars(series) :
        /\ k > LastPoint(res)
        /\ series.Close[k] * MinPoints * FitD(res.upper)
              > FitAt(res.upper, ValuesAt(series.High, res.upper), k) }

\* C23: the breakdown of a rising wedge is the first bar strictly after
\* the later of the two trendlines' last points whose close is below the
\* projected lower line, the breakout of a falling wedge the first such
\* bar whose close is above the projected upper line; when there is no
\* such bar the wedge is returned with its trendline points and without
\* a breakout
C23_FirstCrossingAfterLines ==
    /\ WedgeReported("detect_rising_wedge") =>
          /\ Len(ScanResult.upper) = MinPoints /\ Len(ScanResult.lower) = MinPoints
          /\ ScanResult.point =
                IF ClosesBelowLower(ScanResult) = {} THEN NoBar
                ELSE SetMin(ClosesBelowLower(ScanResult))
    /\ WedgeReported("detect_falling_wedge") =>
          /\ Len(ScanResult.upper) = MinPoints /\ Len(ScanResult.lower) = MinPoints
          /\ ScanResult.point =
                IF ClosesAboveUpper(ScanResult) = {} THEN NoBar
                ELSE SetMin(ClosesAboveUpper(ScanResult))

\* a rising wedge whose lower line is crossed by two closes, reported with
\* the earlier one
C23_Witness ==
    /\ WedgeReported("detect_rising_wedge")
    /\ Cardinality(ClosesBelowLower(ScanResult)) > 1
    /\ ScanResult.point = SetMin(ClosesBelowLower(ScanResult))

--------------------------------------------------------------------------
(* Properties of the Cup and Handle detector *)

CupReported == ScanDone("detect_cup_and_handle") /\ ScanResult.found

LeftRimPrice(res) == series.High[res.left_rim]
RightRimPrice(res) == series.High[res.right_rim]
CupDepth(res) == series.High[res.left_rim] - series.Low[res.cup_bottom]
HandleDepth(res) == series.High[res.right_rim] - series.Low[res.handle_bottom]

\* what C24 and its amendment share: the cup is at least 15% of the left
\* rim's price deep, the right rim is within 5% of the left rim, the
\* handle is at most half the cup deep and the breakout bar closes above
\* the right rim
CupRules(res) ==
    /\ 100 * CupDepth(res) >= 15 * LeftRimPrice(res)
    /\ 100 * Abs(RightRimPrice(res) - LeftRimPrice(res)) <= 5 * LeftRimPrice(res)
    /\ 2 * HandleDepth(res) <= CupDepth(res)
    /\ series.Close[res.breakout] > RightRimPrice(res)

\* C24 as stated: every reported Cup and Handle keeps the rules, and its
\* handle is at least 3% of the cup's depth deep
C24_HandleOfCupDepth ==
    CupReported =>
        /\ CupRules(ScanResult)
        /\ 100 * HandleDepth(ScanResult) >= 3 * CupDepth(ScanResult)

\* C24 amended: every reported Cup and Handle keeps the rules, and its
\* handle is at least 3% of the right rim's price deep
C24_HandleOfRimPrice ==
    CupReported =>
        /\ CupRules(ScanResult)
        /\ 100 * HandleDepth(ScanResult) >= 3 * RightRimPrice(ScanResult)

\* a reported pattern whose handle is 3% of the right rim's price and less
\* than 3% of the cup's depth deep
C24_Witness ==
    /\ CupReported
    /\ 100 * HandleDepth(ScanResult) >= 3 * RightRimPrice(ScanResult)
    /\ 100 * HandleDepth(ScanResult) < 3 * CupDepth(ScanResult)

\* C29: the landmarks of a reported Cup and Handle are in order, the left
\* rim lies 21 to 40 bars before the right rim, the handle bottom fewer
\* than 15 bars after the right rim, and the handle bottom's low is not
\* below the cup bottom's low plus half the cup's depth
C29_LandmarksOrdered ==
    CupReported =>
        LET res == ScanResult IN
        /\ res.left_rim <= res.cup_bottom
        /\ res.cup_bottom <= res.right_rim
        /\ res.right_rim <= res.handle_bottom
        /\ res.handle_bottom < res.breakout
        /\ res.breakout \in Bars(series)
        /\ res.right_rim - res.left_rim \in 21..40
        /\ res.handle_bottom - res.right_rim < 15
        /\ 2 * series.Low[res.handle_bottom] >= 2 * series.Low[res.cup_bottom] + CupDepth(res)

\* a reported pattern with five different landmarks
C29_Witness ==
    /\ CupReported
    /\ ScanResult.left_rim < ScanResult.cup_bottom
    /\ ScanResult.cup_bottom < ScanResult.right_rim
    /\ ScanResult.right_rim < ScanResult.handle_bottom

--------------------------------------------------------------------------
(* The Ascending Triangle entry point: checked under Spec *)

\* a complete table, long enough, in which a window has three touches of
\* the resistance zone over a rising support, with (confirmed) or without
\* (forming) a close above the resistance within the lookahead
TriangleTable(s) ==
    /\ RequiredColumns \subseteq s.cols
    /\ s.len >= MinBarsAscendingTriangle
    /\ s.shape \in {"forming", "confirmed"}

\* C25: on a triangle with three touches and a rising support the entry
\* point reports a detected pattern, 'Breakout confirmed' when a lookahead
\* bar closed above the resistance and 'Awaiting breakout' when none did
\* and the close stayed near the resistance; neither ends in an error
\* message.
C25_TriangleReported ==
    \A i \in DOMAIN calls :
        (calls[i].fn = "invokeAscendingTriangle" /\ TriangleTable(series)) =>
            /\ calls[i].res.msg = "Pattern detected"
            /\ calls[i].res.status =
                  IF series.shape = "confirmed" THEN "Breakout confirmed"
                  ELSE "Awaiting breakout"

--------------------------------------------------------------------------
(* Degenerate numeric steps: checked under SpecZero *)

\* C26: a combination of landmarks whose numeric step is degenerate (a
\* division by a price of 0) is discarded alone and the scan goes on: no
\* detector raises, invokeDoubleTop never answers with an error message,
\* and it reports the pattern whenever some pair of peaks qualifies
C26_DegenerateStepSkipped ==
    /\ ScanDone("detect_double_top") => ScanResult.exc = "none"
    /\ ScanDone("detect_cup_and_handle") => ScanResult.exc = "none"
    /\ ScanDone("invokeDoubleTop") =>
          /\ ScanResult.msg # "Error"
          /\ QualifyingDoubleTops(series) # {} => ScanResult.msg = "Pattern detected"

--------------------------------------------------------------------------
(* The three votes: checked under SpecVoter *)

\* a call of analyze_data that reached the voting step
Voted(c) == c.fn = "analyze_data" /\ c.res.sma_signal # None

\* the votes of the moving averages and of the RSI, as C27 and its
\* amendment state them
TrendAndRsiVotes(c, b) ==
    /\ c.res.sma_signal = "Bullish" <=> (b.close > b.sma20 /\ b.sma20 > b.sma50)
    /\ c.res.sma_signal = "Bearish" <=> (b.close < b.sma20 /\ b.sma20 < b.sma50)
    /\ c.res.rsi_signal = "Oversold" <=> b.rsi < 30
    /\ c.res.rsi_signal = "Overbought" <=> b.rsi > 70

\* C27 as stated: the moving averages vote Bullish iff close > SMA20 >
\* SMA50 and Bearish iff close < SMA20 < SMA50, the RSI Bullish iff below
\* 30 and Bearish iff above 70, and the MACD Bullish if its line is above
\* the signal line and Bearish in every other case, equality included
C27_MacdBearishUnlessAbove ==
    \A i \in DOMAIN calls :
        Voted(calls[i]) =>
            /\ TrendAndRsiVotes(calls[i], series.last)
            /\ calls[i].res.macd_signal = "Above Signal"
                  <=> series.last.macd > series.last.macd_signal
            /\ calls[i].res.macd_signal = "Below Signal"
                  <=> ~(series.last.macd > series.last.macd_signal)

\* C27 amended: the moving averages and the RSI vote as stated, and the
\* MACD votes Bullish iff its line is above the signal line, Bearish iff it
\* is below, and casts no vote when the two are equal
C27_MacdNeutralOnEqual ==
    \A i \in DOMAIN calls :
        Voted(calls[i]) =>
            /\ TrendAndRsiVotes(calls[i], series.last)
            /\ calls[i].res.macd_signal = "Above Signal"
                  <=> series.last.macd > series.last.macd_signal
            /\ calls[i].res.macd_signal = "Below Signal"
                  <=> series.last.macd < series.last.macd_signal
            /\ calls[i].res.macd_signal = "Neutral"
                  <=> series.last.macd = series.last.macd_signal

\* a vote taken with the MACD line on its signal line
C27_Witness ==
    \E i \in DOMAIN calls :
        /\ Voted(calls[i])
        /\ series.last.macd = series.last.macd_signal
        /\ calls[i].res.macd_signal = "Neutral"

\* a call of analyze_data on a table with its Close column
VoterCall(c) == c.fn = "analyze_data" /\ "Close" \in series.cols

\* C28: analyze_data returns Buy, Sell or Hold only for a series of at
\* least 54 bars (5 rows left after the 49 without SMA50); for 50 to 53
\* bars it returns 'Insufficient data after processing' with confidence 0;
\* every result whose direction is neither Buy nor Sell has confidence 0
C28_FiveRowsAfterDropna ==
    \A i \in DOMAIN calls :
        calls[i].fn = "analyze_data" =>
            /\ calls[i].res.signal \in {"Buy", "Sell", "Hold"} => series.len >= 54
            /\ (VoterCall(calls[i]) /\ series.len >= 54) =>
                  calls[i].res.signal \in {"Buy", "Sell", "Hold"}
            /\ (VoterCall(calls[i]) /\ series.len \in 50..53) =>
                  /\ calls[i].res.signal = "Insufficient data after processing"
                  /\ calls[i].res.confidence3 = 0
            /\ calls[i].res.signal \notin {"Buy", "Sell"} => calls[i].res.confidence3 = 0

\* 53 bars whose latest bar would have been all bullish
C28_Witness ==
    \E i \in DOMAIN calls :
        /\ VoterCall(calls[i])
        /\ series.len = 53
        /\ series.last.close > series.last.sma20 /\ series.last.sma20 > series.last.sma50
        /\ series.last.rsi < 30 /\ series.last.macd > series.last.macd_signal
        /\ calls[i].res.signal = "Insufficient data after processing"

--------------------------------------------------------------------------
(* The Fibonacci targets of a Double Bottom: checked under SpecBottoms *)

BottomReported == ScanDone("invokeDoubleBottom") /\ ScanResult.msg = "Pattern detected"

\* C30: for every Double Bottom that invokeDoubleBottom reports, the swing
\* high handed to the Fibonacci calculator (the high of the second low's
\* bar) is not below the swing low (the low of the first low's bar), so the
\* retracement levels are non-decreasing in their ratio and lie between
\* the swing low and the swing high, and every extension level is at or
\* above the breakout price
C30_SwingHighAboveSwingLow ==
    BottomReported =>
        LET res == ScanResult
            swing_low == 1000 * series.Low[res.first]
            swing_high == 1000 * series.High[res.second]
        IN /\ swing_high >= swing_low
           /\ \A k, m \in DOMAIN RetracementRatios :
                 RetracementRatios[k] <= RetracementRatios[m] => res.fib[k] <= res.fib[m]
           /\ \A k \in DOMAIN RetracementRatios :
                 swing_low <= res.fib[k] /\ res.fib[k] <= swing_high
           /\ \A k \in DOMAIN ExtensionRatios :
                 res.fib[k] >= 1000 * series.High[res.breakout]

====
